---- MODULE Spec2Model ----
(***************************************************************************)
(* grits: the output-template compiler (src/template/parse/mod.rs), the    *)
(* OutputTemplate built from its anchors and the transform engine          *)
(* (src/template/mod.rs).                                                  *)
(*                                                                         *)
(* A template is a sequence of characters (`template.chars().collect()`).  *)
(* A character is a one-character string; "U+E9" stands for the character  *)
(* e-acute, which UTF-8 encodes in two bytes.  Indices are 0-based as in   *)
(* the source: Tok(i) is tokens[i].  Option<T> is a sequence of length at  *)
(* most one: None is << >>, Some(x) is << x >>.                            *)
(***************************************************************************)
EXTENDS Naturals, Integers, Sequences, FiniteSets, TLC

(***************************************************************************)
(* Tokens (template/token.rs, values as used by the tests)                 *)
(***************************************************************************)
ANCHOR_OPEN == "{"
ANCHOR_CLOSE == "}"
ESCAPE == "\\"
REQUIRED == "!"
INDEX_OPEN == "["
INDEX_CLOSE == "]"
DEFAULT_PIPE == "|"
LITERAL_SINGLE_QUOTE == "'"
LITERAL_DOUBLE_QUOTE == "\""
ATTRIBUTE_OPEN == "("
ATTRIBUTE_CLOSE == ")"
ATTRIBUTE_DELIMETER == "|"
ATTRIBUTE_END == ":"
PARAM_OPEN == "("
PARAM_CLOSE == ")"
PARAM_DELIMETER == ","

E_ACUTE == "U+E9"

None == << >>
Some(x) == << x >>
IsSome(o) == o # << >>
Unwrap(o) == o[1]

\* char::is_ascii_whitespace
IsAsciiWhitespace(c) == c \in {" ", "\t", "\n", "\r", "\f"}

Digits == {"0", "1", "2", "3", "4", "5", "6", "7", "8", "9"}
DigitValue(c) ==
    CASE c = "0" -> 0 [] c = "1" -> 1 [] c = "2" -> 2 [] c = "3" -> 3 [] c = "4" -> 4
      [] c = "5" -> 5 [] c = "6" -> 6 [] c = "7" -> 7 [] c = "8" -> 8 [] c = "9" -> 9

Letters == {"a", "b", "c", "d", "e", "f", "g", "h", "i", "j", "k", "l", "m", "n", "o",
            "p", "q", "r", "s", "t", "u", "v", "w", "x", "y", "z"}

\* The character class of VALID_ANCHOR_CHARSET, ^[a-zA-Z0-9_]+$
AnchorCharset == Letters \cup Digits \cup {"_"}

SetMin(S) == CHOOSE x \in S : \A y \in S : x <= y

\* s[b..e] of a Rust slice: defined when b <= e <= s.len(), a panic otherwise
SliceOk(s, b, e) == b <= e /\ e <= Len(s)
Slice(s, b, e) == SubSeq(s, b + 1, e)

RECURSIVE StripWhitespace(_)
StripWhitespace(s) ==
    IF s = << >> THEN << >>
    ELSE IF IsAsciiWhitespace(Head(s)) THEN StripWhitespace(Tail(s))
    ELSE << Head(s) >> \o StripWhitespace(Tail(s))

\* Rules::name_is_valid
NameIsValid(name) == name # << >> /\ \A k \in 1..Len(name) : name[k] \in AnchorCharset

RECURSIVE DecimalValue(_)
DecimalValue(s) ==
    IF s = << >> THEN 0 ELSE 10 * DecimalValue(SubSeq(s, 1, Len(s) - 1)) + DigitValue(s[Len(s)])

AllDigits(s) == s # << >> /\ \A k \in 1..Len(s) : s[k] \in Digits

\* str::parse::<usize>: an optional '+', then at least one digit; None is the error
ParseUsize(s) ==
    IF AllDigits(s) THEN Some(DecimalValue(s))
    ELSE IF s # << >> /\ s[1] = "+" /\ AllDigits(Tail(s)) THEN Some(DecimalValue(Tail(s)))
    ELSE None

(***************************************************************************)
(* UTF-8: a &str is indexed by byte.                                       *)
(***************************************************************************)
Utf8(c) == IF c = E_ACUTE THEN << "0xC3", "0xA9" >> ELSE << c >>

RECURSIVE Bytes(_)
Bytes(chars) == IF chars = << >> THEN << >> ELSE Utf8(Head(chars)) \o Bytes(Tail(chars))

\* str::is_char_boundary
IsCharBoundary(chars, off) ==
    \E k \in 0..Len(chars) : Len(Bytes(SubSeq(chars, 1, k))) = off

\* &template[b..e]: defined on char boundaries with b <= e <= template.len()
StrSliceOk(chars, b, e) ==
    /\ b <= e /\ e <= Len(Bytes(chars))
    /\ IsCharBoundary(chars, b) /\ IsCharBoundary(chars, e)

StrSlice(chars, b, e) == Slice(Bytes(chars), b, e)

(***************************************************************************)
(* Attribute::parse and Attribute::apply (template/parse/attr.rs)          *)
(***************************************************************************)
Str(w) == w  \* a String is its sequence of characters

UpperCase == << "A", "B", "C", "D", "E", "F", "G", "H", "I", "J", "K", "L", "M", "N", "O",
                "P", "Q", "R", "S", "T", "U", "V", "W", "X", "Y", "Z" >>
LowerCase == << "a", "b", "c", "d", "e", "f", "g", "h", "i", "j", "k", "l", "m", "n", "o",
                "p", "q", "r", "s", "t", "u", "v", "w", "x", "y", "z" >>

ToLowerChar(c) ==
    IF \E k \in 1..26 : UpperCase[k] = c
    THEN LowerCase[CHOOSE k \in 1..26 : UpperCase[k] = c]
    ELSE c

\* str::to_lowercase
ToLowercase(s) == [k \in 1..Len(s) |-> ToLowerChar(s[k])]

RECURSIVE TrimStartMatches(_, _)
TrimStartMatches(s, c) ==
    IF s # << >> /\ Head(s) = c THEN TrimStartMatches(Tail(s), c) ELSE s

RECURSIVE TrimEndMatches(_, _)
TrimEndMatches(s, c) ==
    IF s # << >> /\ s[Len(s)] = c THEN TrimEndMatches(SubSeq(s, 1, Len(s) - 1), c) ELSE s

RECURSIVE TrimStart(_)
TrimStart(s) == IF s # << >> /\ IsAsciiWhitespace(Head(s)) THEN TrimStart(Tail(s)) ELSE s

RECURSIVE TrimEnd(_)
TrimEnd(s) ==
    IF s # << >> /\ IsAsciiWhitespace(s[Len(s)]) THEN TrimEnd(SubSeq(s, 1, Len(s) - 1)) ELSE s

\* str::split(PARAM_DELIMETER): always at least one piece
RECURSIVE SplitParams(_, _)
SplitParams(s, cur) ==
    IF s = << >> THEN << cur >>
    ELSE IF Head(s) = PARAM_DELIMETER THEN << cur >> \o SplitParams(Tail(s), << >>)
    ELSE SplitParams(Tail(s), Append(cur, Head(s)))

\* attr.rs:70-77, one raw argument cleaned
CleanArg(raws) ==
    TrimEndMatches(
        TrimEndMatches(
            TrimStartMatches(
                TrimStartMatches(TrimEnd(TrimStart(raws)), LITERAL_SINGLE_QUOTE),
                LITERAL_DOUBLE_QUOTE),
            LITERAL_SINGLE_QUOTE),
        LITERAL_DOUBLE_QUOTE)

ParseArgs(raw_args) ==
    IF raw_args = None THEN << >>
    ELSE LET pieces == SplitParams(Unwrap(raw_args), << >>)
         IN [k \in 1..Len(pieces) |-> CleanArg(pieces[k])]

\* The patterns of the model are literal words: Regex::new accepts a pattern without
\* metacharacters and the Regex matches a text that contains the word.  A pattern with
\* an unclosed group or class is the compile error.
RegexMeta == {"(", ")", "[", "]", "*", "+", "?", "\\", "{", "}", "|", "^", "$", "."}
RegexNew(pattern) ==
    IF \E k \in 1..Len(pattern) : pattern[k] \in RegexMeta THEN None ELSE Some(pattern)

IsMatch(re, txt) ==
    \E k \in 0..(Len(txt) - Len(re)) : SubSeq(txt, k + 1, k + Len(re)) = re

ForegroundKinds ==
    {"Black", "Red", "Green", "Yellow", "Blue", "Magenta", "Cyan", "White"}
BackgroundKinds ==
    {"BgBlack", "BgRed", "BgGreen", "BgYellow", "BgBlue", "BgMagenta", "BgCyan", "BgWhite"}
EmphasisKinds == {"Bold", "Underlined", "Reverse", "CrossedOut"}

\* attr.rs:98-118, the attribute names without arguments
KindOfName(n) ==
    CASE n = Str(<< "b", "l", "a", "c", "k" >>) -> "Black"
      [] n = Str(<< "r", "e", "d" >>) -> "Red"
      [] n = Str(<< "g", "r", "e", "e", "n" >>) -> "Green"
      [] n = Str(<< "y", "e", "l", "l", "o", "w" >>) -> "Yellow"
      [] n = Str(<< "b", "l", "u", "e" >>) -> "Blue"
      [] n = Str(<< "m", "a", "g", "e", "n", "t", "a" >>) -> "Magenta"
      [] n = Str(<< "c", "y", "a", "n" >>) -> "Cyan"
      [] n = Str(<< "w", "h", "i", "t", "e" >>) -> "White"
      [] n \in {<< "b", "g", "_", "b", "l", "a", "c", "k" >>,
                << "b", "g", "-", "b", "l", "a", "c", "k" >>} -> "BgBlack"
      [] n \in {<< "b", "g", "_", "r", "e", "d" >>, << "b", "g", "-", "r", "e", "d" >>} -> "BgRed"
      [] n \in {<< "b", "g", "_", "g", "r", "e", "e", "n" >>,
                << "b", "g", "-", "g", "r", "e", "e", "n" >>} -> "BgGreen"
      [] n \in {<< "b", "g", "_", "y", "e", "l", "l", "o", "w" >>,
                << "b", "g", "-", "y", "e", "l", "l", "o", "w" >>} -> "BgYellow"
      [] n \in {<< "b", "g", "_", "b", "l", "u", "e" >>,
                << "b", "g", "-", "b", "l", "u", "e" >>} -> "BgBlue"
      [] n \in {<< "b", "g", "_", "m", "a", "g", "e", "n", "t", "a" >>,
                << "b", "g", "-", "m", "a", "g", "e", "n", "t", "a" >>} -> "BgMagenta"
      [] n \in {<< "b", "g", "_", "c", "y", "a", "n" >>,
                << "b", "g", "-", "c", "y", "a", "n" >>} -> "BgCyan"
      [] n \in {<< "b", "g", "_", "w", "h", "i", "t", "e" >>,
                << "b", "g", "-", "w", "h", "i", "t", "e" >>} -> "BgWhite"
      [] n = Str(<< "b", "o", "l", "d" >>) -> "Bold"
      [] n = Str(<< "u", "n", "d", "e", "r", "l", "i", "n", "e", "d" >>) -> "Underlined"
      [] n = Str(<< "r", "e", "v", "e", "r", "s", "e" >>) -> "Reverse"
      [] n \in {<< "c", "r", "o", "s", "s", "e", "d", "o", "u", "t" >>,
                << "c", "r", "o", "s", "s", "e", "d", "_", "o", "u", "t" >>,
                << "c", "r", "o", "s", "s", "e", "d", "-", "o", "u", "t" >>} -> "CrossedOut"
      [] OTHER -> "?"

\* attr.rs:119, 129-141
AlignDirection(n) ==
    CASE n = Str(<< "l", "a", "l", "i", "g", "n" >>) -> "Left"
      [] n = Str(<< "c", "a", "l", "i", "g", "n" >>) -> "Center"
      [] n = Str(<< "r", "a", "l", "i", "g", "n" >>) -> "Right"
      [] OTHER -> "?"

MkAttribute(kind, direction, width, must_match) ==
    [kind |-> kind, direction |-> direction, width |-> width, must_match |-> must_match]

AttrOk(a) == [ok |-> TRUE, attr |-> a, error |-> ""]
AttrErr(e) == [ok |-> FALSE, attr |-> MkAttribute("?", "", 0, None), error |-> e]

\* Attribute::parse: [ok, attr, error]
AttributeParseOne(val, raw_args) ==
    LET conditional == val # << >> /\ Head(val) = "?"
        attr_name == ToLowercase(IF conditional THEN Tail(val) ELSE val)
        args == ParseArgs(raw_args)
        re == IF conditional /\ args # << >> THEN RegexNew(args[1]) ELSE None
        rest == IF conditional THEN Tail(args) ELSE args  \* args_iter after the pattern
        must_match == IF conditional THEN re ELSE None
    IN  IF conditional /\ args = << >> THEN AttrErr("conditional_without_argument")
        ELSE IF conditional /\ re = None THEN AttrErr("invalid_regular_expression")
        ELSE IF KindOfName(attr_name) # "?"
             THEN AttrOk(MkAttribute(KindOfName(attr_name), "", 0, must_match))
        ELSE IF AlignDirection(attr_name) # "?"
             THEN IF rest = << >> THEN AttrErr("align_without_argument")
                  ELSE IF ParseUsize(rest[1]) = None THEN AttrErr("align_width_not_a_number")
                  ELSE AttrOk(MkAttribute("Align", AlignDirection(attr_name),
                                          Unwrap(ParseUsize(rest[1])), must_match))
        ELSE AttrErr("unrecognized_attribute")

\* StyledContent<String>: the text and its ContentStyle
Stylize(txt) == [content |-> txt, fg |-> None, bg |-> None, attributes |-> << >>]

ColorCode(k) ==
    CASE k \in {"Black", "BgBlack"} -> << "0" >>
      [] k \in {"Red", "BgRed"} -> << "9" >>
      [] k \in {"Green", "BgGreen"} -> << "1", "0" >>
      [] k \in {"Yellow", "BgYellow"} -> << "1", "1" >>
      [] k \in {"Blue", "BgBlue"} -> << "1", "2" >>
      [] k \in {"Magenta", "BgMagenta"} -> << "1", "3" >>
      [] k \in {"Cyan", "BgCyan"} -> << "1", "4" >>
      [] k \in {"White", "BgWhite"} -> << "1", "5" >>

EmphasisCode(k) ==
    CASE k = "Bold" -> << "1" >> [] k = "Underlined" -> << "4" >>
      [] k = "Reverse" -> << "7" >> [] k = "CrossedOut" -> << "9" >>

Csi(body) == << "ESC", "[" >> \o body \o << "m" >>

\* Attributes is a bit set: rendered in the order of the enum, each once
EmphasisOrder == << "Bold", "Underlined", "Reverse", "CrossedOut" >>
RECURSIVE RenderEmphasis(_, _)
RenderEmphasis(set, k) ==
    IF k > Len(EmphasisOrder) THEN << >>
    ELSE (IF EmphasisOrder[k] \in set THEN Csi(EmphasisCode(EmphasisOrder[k])) ELSE << >>)
         \o RenderEmphasis(set, k + 1)

\* Display of StyledContent (val.to_string()): colors and attributes, the text, the resets
Render(val) ==
    LET set == {val.attributes[k] : k \in 1..Len(val.attributes)}
    IN  (IF IsSome(val.bg) THEN Csi(<< "4", "8", ";", "5", ";" >> \o ColorCode(Unwrap(val.bg)))
         ELSE << >>)
        \o (IF IsSome(val.fg) THEN Csi(<< "3", "8", ";", "5", ";" >> \o ColorCode(Unwrap(val.fg)))
            ELSE << >>)
        \o RenderEmphasis(set, 1)
        \o val.content
        \o (IF set # {} THEN Csi(<< "0" >>)
            ELSE (IF IsSome(val.bg) THEN Csi(<< "4", "9" >>) ELSE << >>)
                 \o (IF IsSome(val.fg) THEN Csi(<< "3", "9" >>) ELSE << >>))

Spaces(n) == [k \in 1..n |-> " "]

\* A variant that cuts a text longer than the width down to the width
PadCut(txt, direction, width) ==
    LET kept == IF Len(txt) > width THEN SubSeq(txt, 1, width) ELSE txt
        missing == width - Len(kept)
        left == missing \div 2
    IN  CASE direction = "Left" -> kept \o Spaces(missing)
          [] direction = "Right" -> Spaces(missing) \o kept
          [] direction = "Center" -> Spaces(left) \o kept \o Spaces(missing - left)

\* format!("{val:<width$}") and its > and ^ forms: pads to width, never truncates
Pad(txt, direction, width) ==
    LET missing == IF Len(txt) < width THEN width - Len(txt) ELSE 0
        left == missing \div 2
    IN  CASE direction = "Left" -> txt \o Spaces(missing)
          [] direction = "Right" -> Spaces(missing) \o txt
          [] direction = "Center" -> Spaces(left) \o txt \o Spaces(missing - left)

\* A variant in which the pattern of a conditional attribute is not looked at
AppliesAlways(attribute, txt) == TRUE

\* attr.rs:155-159: a conditional attribute is tested against the text given to apply
AttributeApplies(attribute, txt) ==
    attribute.must_match = None \/ IsMatch(Unwrap(attribute.must_match), txt)

\* attr.rs:160-195, one attribute applied to the styled value
ApplyOne(val, attribute) ==
    CASE attribute.kind \in ForegroundKinds -> [val EXCEPT !.fg = Some(attribute.kind)]
      [] attribute.kind \in BackgroundKinds -> [val EXCEPT !.bg = Some(attribute.kind)]
      [] attribute.kind \in EmphasisKinds ->
            [val EXCEPT !.attributes = Append(val.attributes, attribute.kind)]
      [] attribute.kind = "Align" -> Stylize(Pad(Render(val), attribute.direction, attribute.width))

RECURSIVE ApplyLoop(_, _, _)
ApplyLoop(val, txt, attributes) ==
    IF attributes = << >> THEN val
    ELSE ApplyLoop(IF AttributeApplies(Head(attributes), txt)
                   THEN ApplyOne(val, Head(attributes)) ELSE val,
                   txt, Tail(attributes))

\* Attribute::apply
AttributeApply(txt, attributes) == Render(ApplyLoop(Stylize(txt), txt, attributes))


(***************************************************************************)
(* State                                                                   *)
(***************************************************************************)
VARIABLES
    tokens,           \* ParseState.tokens: the template's characters
    cursor,           \* ParseState.cursor
    mode,             \* ParseState.mode
    bound_anchor,     \* ParseState.bound_anchor: Option<Anchor>
    recursion_depth,  \* ParseState.recursion_depth: one more per parse_impl call
    anchors,          \* the Vec<Anchor> parse_impl fills
    result,           \* what parse has returned: running, ok, err or panic
    targets,          \* OutputTemplate.targets
    built,            \* what OutputTemplate::parse has returned: none, ok, err, panic
    interpolation_map,\* the map given to the last transform call, None before it
    pieces,           \* what each target visited by that call pushed to `out`
    out,              \* the String that call returned
    process_args,     \* line.rs run: ProcessArgs, each pattern by what Regex::new gives
    captures_map,     \* line.rs run: the map built before the loop, None before that
    line,             \* line.rs run: the line of the current iteration, by its matches
    line_captures_map,\* line.rs run: the map of the current iteration
    run_pc,           \* line.rs run: where the function is
    buffer,           \* BlockBufferedOutputWriter.buffer
    stdout_lock,      \* the bytes written to stdout through stdout_lock
    passed,           \* the lines given to writeln so far
    writeln_result,   \* what the last writeln returned
    dropped,          \* the writer was dropped
    stdout_failed,    \* a write to stdout has returned an error
    file_paths,       \* what reading each file of MultiFileScanner::new gives
    buf_readers,      \* MultiFileScanner.buf_readers: what each reader has left
    current_buf_reader_idx, \* MultiFileScanner.current_buf_reader_idx
    yielded,          \* the lines next has returned so far
    next_result       \* what the last call of next returned

parser_vars == << tokens, cursor, mode, bound_anchor, recursion_depth, anchors, result >>
template_vars == << targets, built >>
transform_vars == << interpolation_map, pieces, out >>
run_vars == << process_args, captures_map, line, line_captures_map, run_pc >>
writer_vars == << buffer, stdout_lock, passed, writeln_result, dropped, stdout_failed >>
scanner_vars == << file_paths, buf_readers, current_buf_reader_idx, yielded, next_result >>
driver_vars == << run_vars, writer_vars, scanner_vars >>
core_vars == << parser_vars, template_vars, transform_vars >>
vars == << tokens, cursor, mode, bound_anchor, recursion_depth, anchors, result,
           targets, built, interpolation_map, pieces, out,
           process_args, captures_map, line, line_captures_map, run_pc,
           buffer, stdout_lock, passed, writeln_result, dropped, stdout_failed,
           file_paths, buf_readers, current_buf_reader_idx, yielded, next_result >>

NTok == Len(tokens)
HasTok(i) == i >= 0 /\ i < NTok           \* tokens.get(i).is_some()
Tok(i) == tokens[i + 1]                   \* tokens[i]

\* Anchor { start, ..Default::default() }
NewAnchor(start) ==
    [name |-> << >>, start |-> start, end |-> 0, index |-> None, defaults |-> << >>,
     attributes |-> << >>, required |-> FALSE]

DefaultLiteral(val) == [kind |-> "Literal", val |-> val, name |-> << >>, index |-> None]
DefaultAnchor(name, index) == [kind |-> "Anchor", val |-> << >>, name |-> name, index |-> index]

Running == [status |-> "running", kind |-> "", char_index |-> None]
OkResult == [status |-> "ok", kind |-> "", char_index |-> None]
\* ParseError { char_index, .. }
ParseErr(kind, char_index) == [status |-> "err", kind |-> kind, char_index |-> Some(char_index)]
\* format_err!(..) and the errors of Attribute::parse carry no index
OtherErr(kind) == [status |-> "err", kind |-> kind, char_index |-> None]
\* a slice out of range
Panicked == [status |-> "panic", kind |-> "slice_index_out_of_range", char_index |-> None]
Unexpected == OtherErr("unexpected")

\* `for i in from..tokens.len() { mode.cursor = i; .. }` run to its end
CursorAfterFor(from) == IF from < NTok THEN NTok - 1 ELSE cursor

\* The recursion is followed up to this depth; a parse that returns needs less.
MaxDepth == NTok + 4

InMode(m) == result.status = "running" /\ mode = m /\ recursion_depth < MaxDepth

\* One call of parse_impl: the state it leaves for the call it makes, or its return
ParserStep(c, m, b, a, r) ==
    /\ cursor' = c
    /\ mode' = m
    /\ bound_anchor' = b
    /\ anchors' = a
    /\ result' = r
    /\ recursion_depth' = recursion_depth + 1
    /\ UNCHANGED << tokens, targets, built, interpolation_map, pieces, out, driver_vars >>

Return(c, r) == ParserStep(c, mode, bound_anchor, anchors, r)

(***************************************************************************)
(* parse_impl, one action per ParseStateMode                               *)
(***************************************************************************)
Base ==
    /\ InMode("Base")
    /\ LET hits == {i \in cursor..(NTok - 1) : Tok(i) \in {ESCAPE, ANCHOR_OPEN}}
       IN  IF hits = {} THEN Return(CursorAfterFor(cursor), OkResult)
           ELSE LET i == SetMin(hits)
                IN  IF Tok(i) = ESCAPE
                    THEN ParserStep(i, "Escaping", bound_anchor, anchors, result)
                    ELSE ParserStep(i, "AnchorBegin", Some(NewAnchor(i)), anchors, result)

\* A variant that goes back to Base on the character after the `\`
OnEscapee(c) == c + 1

\* mod.rs:138-142: the cursor after the two `mode.cursor += 1`, past the escapee
PastEscapee(c) == c + 2

\* A variant that reports the position after the `\`
EscapeeIndex(c) == c

\* mod.rs:140: missing_escapee(mode.cursor - 1, ..), the cursor being past the `\`
EscapeIndex(c) == c - 1

Escaping ==
    /\ InMode("Escaping")
    /\ IF ~HasTok(cursor + 1)
       THEN Return(cursor + 1, ParseErr("missing_escapee", EscapeIndex(cursor + 1)))
       ELSE ParserStep(PastEscapee(cursor), "Base", bound_anchor, anchors, result)

\* mod.rs:149-159: the loop tests tokens[mode.cursor] and, when it is whitespace,
\* sets the cursor to the loop index, which is the cursor itself on the first round
AnchorBeginSkip(c) == IF HasTok(c) /\ IsAsciiWhitespace(Tok(c)) THEN c ELSE c

\* A variant that takes no token for the marker
MarksNothing(token) == FALSE

\* mod.rs:160: `*token == REQUIRED`
MarksRequired(token) == token = REQUIRED

AnchorBegin ==
    /\ InMode("AnchorBegin")
    /\ LET c1 == AnchorBeginSkip(cursor + 1)
           required == HasTok(c1) /\ MarksRequired(Tok(c1))
           c2 == IF required THEN c1 + 1 ELSE c1
           b == IF required
                THEN Some([Unwrap(bound_anchor) EXCEPT !.required = TRUE])
                ELSE bound_anchor
       IN  IF required /\ bound_anchor = None THEN Return(c1, Unexpected)
           ELSE IF HasTok(c2) /\ Tok(c2) = ATTRIBUTE_OPEN
                THEN ParserStep(c2, "AttributeParse", b, anchors, result)
                ELSE ParserStep(c2, "AnchorParseBase", b, anchors, result)

\* The tokens that end the scan of AnchorParseBase
BodyStops ==
    {INDEX_OPEN, ANCHOR_CLOSE, DEFAULT_PIPE, LITERAL_DOUBLE_QUOTE, LITERAL_SINGLE_QUOTE}

\* A variant that leaves `end` on the close token
AnchorEndAtClose(at) == at

\* mod.rs:230: the end of a finished anchor, its close token at `at`
AnchorEnd(at) == at + 1

\* A variant that looks at the name only
IndexingRejectedIfEmpty(name, prev_token) == name = << >>

\* mod.rs:207: the check at the index-open token
IndexingRejected(name, prev_token) == name = << >> \/ name[Len(name)] # prev_token

\* mod.rs:219: the name check at the close token
NameRejected(name, defaults) == (name = << >> \/ ~NameIsValid(name)) /\ defaults = << >>

AnchorParseBase ==
    /\ InMode("AnchorParseBase")
    /\ LET begin == cursor
           stops == {i \in cursor..(NTok - 1) : Tok(i) \in BodyStops}
       IN  IF bound_anchor = None THEN Return(cursor, Unexpected)
           ELSE IF stops = {}
           THEN \* the loop ends without a break and parse_impl is called again
                ParserStep(CursorAfterFor(cursor), mode, bound_anchor, anchors, result)
           ELSE LET i == SetMin(stops)          \* `end` is i here
                    anchor == Unwrap(bound_anchor)
                    name == anchor.name \o StripWhitespace(Slice(tokens, begin, i))
                    named == [anchor EXCEPT !.name = name]
                IN  CASE Tok(i) = INDEX_OPEN ->
                           IF IndexingRejected(name, Tok(i - 1))
                           THEN Return(i, ParseErr("invalid_indexing_operation", i - 1))
                           ELSE ParserStep(i, "AnchorParseIndex", Some(named), anchors, result)
                      [] Tok(i) = ANCHOR_CLOSE ->
                           IF NameRejected(name, anchor.defaults)
                           THEN Return(i, ParseErr("invalid_anchor_name", i - 1))
                           ELSE ParserStep(i, "Base", None,
                                           Append(anchors, [named EXCEPT !.end = AnchorEnd(i)]),
                                           result)
                      [] Tok(i) = DEFAULT_PIPE ->
                           IF name = << >> \/ ~(HasTok(i + 1) /\ Tok(i + 1) = DEFAULT_PIPE)
                           THEN Return(i + 1, ParseErr("invalid_default_value_operation", i))
                           ELSE ParserStep(i + 1, "AnchorParseDefaultValue", Some(named),
                                           anchors, result)
                      [] OTHER ->
                           ParserStep(i, "AnchorParseDefaultLiteral", bound_anchor, anchors,
                                      result)

AnchorParseIndex ==
    /\ InMode("AnchorParseIndex")
    /\ LET begin == cursor + 1
           closes == {i \in begin..(NTok - 1) : Tok(i) = INDEX_CLOSE}
           end == IF closes # {} THEN SetMin(closes) ELSE IF begin < NTok THEN NTok ELSE begin
           c == IF closes # {} THEN SetMin(closes) + 1
                ELSE IF begin < NTok THEN NTok - 1 ELSE begin
           index == ParseUsize(Slice(tokens, begin, end))
       IN  IF bound_anchor = None THEN Return(begin, Unexpected)
           ELSE IF ~SliceOk(tokens, begin, end) THEN Return(c, Panicked)
           ELSE IF index = None THEN Return(c, ParseErr("invalid_index", c - 1))
           ELSE ParserStep(c, "AnchorParseBase",
                           Some([Unwrap(bound_anchor) EXCEPT !.index = index]), anchors, result)

\* A variant without the required check
DefaultAlwaysAllowed(b) == FALSE

\* A variant in which the check is made only for an anchor that has an index
DefaultDisallowedWhenIndexed(b) == IsSome(b) /\ Unwrap(b).required /\ IsSome(Unwrap(b).index)

\* mod.rs:288: a required anchor may not enter the default-value state
DefaultDisallowed(b) == IsSome(b) /\ Unwrap(b).required

\* A variant that steps back over two tokens
StepBackTwice(i) == i - 2

\* mod.rs:302, 306: `mode.cursor -= 1` before the default is scanned
StepBack(i) == i - 1

AnchorParseDefaultValue ==
    /\ InMode("AnchorParseDefaultValue")
    /\ LET from == cursor + 1
           solid == {i \in from..(NTok - 1) : ~IsAsciiWhitespace(Tok(i))}
           eol == IF from < NTok THEN NTok - 1 ELSE from
       IN  IF DefaultDisallowed(bound_anchor)
           THEN Return(cursor, ParseErr("default_disallowed_with_required", cursor - 1))
           ELSE IF solid = {} THEN Return(eol, ParseErr("default_parsing_eol", eol - 1))
           ELSE LET i == SetMin(solid)
                IN  IF Tok(i) \in {LITERAL_SINGLE_QUOTE, LITERAL_DOUBLE_QUOTE}
                    THEN ParserStep(StepBack(i), "AnchorParseDefaultLiteral", bound_anchor, anchors,
                                    result)
                    ELSE IF NameIsValid(<< Tok(i) >>)
                    THEN ParserStep(StepBack(i), "AnchorParseDefaultAnchor", bound_anchor, anchors,
                                    result)
                    ELSE Return(i, ParseErr("default_parsing_disallowed_char", i - 1))

\* `for i in from..len { cursor = i; if whitespace { continue } break }`
SkipWhitespaceFrom(from) ==
    LET solid == {i \in from..(NTok - 1) : ~IsAsciiWhitespace(Tok(i))}
    IN  IF solid # {} THEN SetMin(solid) ELSE IF from < NTok THEN NTok - 1 ELSE from

\* mod.rs:340-363: `rounds` rounds of the loop from cursor c with `end` e and quote q
RECURSIVE LiteralScan(_, _, _, _)
LiteralScan(c, e, rounds, q) ==
    IF rounds = 0 THEN [found |-> FALSE, cursor |-> c, end |-> e]
    ELSE IF ~HasTok(c + 1) THEN [found |-> FALSE, cursor |-> c + 1, end |-> e]
    ELSE IF Tok(c + 1) = ESCAPE THEN LiteralScan(c + 2, e, rounds - 1, q)
    ELSE IF Tok(c + 1) = q THEN [found |-> TRUE, cursor |-> c + 1, end |-> e]
    ELSE LiteralScan(c + 1, e + 1, rounds - 1, q)

AnchorParseDefaultLiteral ==
    /\ InMode("AnchorParseDefaultLiteral")
    /\ LET at == IF cursor < NTok THEN SkipWhitespaceFrom(cursor) ELSE cursor
           begin == at + 1
           scan == LiteralScan(begin, begin + 1, IF begin < NTok THEN NTok - begin ELSE 0,
                               Tok(at))
       IN  IF ~HasTok(at) THEN Return(at, Unexpected)
           ELSE IF ~scan.found
           THEN Return(scan.cursor,
                       ParseErr("default_str_literal_missing_closing_quote", scan.cursor - 1))
           ELSE IF bound_anchor = None THEN Return(scan.cursor, Unexpected)
           ELSE IF ~SliceOk(tokens, begin, scan.end) THEN Return(scan.cursor, Panicked)
           ELSE ParserStep(scan.cursor + 1, "AnchorParseBase",
                           Some([Unwrap(bound_anchor) EXCEPT
                                   !.defaults = Append(@, DefaultLiteral(
                                                   Slice(tokens, begin, scan.end)))]),
                           anchors, result)


\* mod.rs:410-419: `rounds` rounds of the loop that looks for the INDEX_CLOSE
RECURSIVE DefaultIndexScan(_, _, _)
DefaultIndexScan(c, e, rounds) ==
    IF rounds = 0 THEN [eol |-> FALSE, cursor |-> c, end |-> e]
    ELSE IF ~HasTok(c + 1) THEN [eol |-> TRUE, cursor |-> c + 1, end |-> e]
    ELSE IF Tok(c + 1) = INDEX_CLOSE THEN [eol |-> FALSE, cursor |-> c + 1, end |-> e]
    ELSE DefaultIndexScan(c + 1, e + 1, rounds - 1)

\* mod.rs:408: the first `index_end` of a default anchor's index
DefaultIndexEnd(index_begin) == index_begin + 1

DefaultScanEnd(tag, c, name, index, r) ==
    [tag |-> tag, cursor |-> c, name |-> name, index |-> index, result |-> r]

\* mod.rs:385-430: the while loop, from cursor c with `end` e and `index`
RECURSIVE DefaultAnchorScan(_, _, _, _)
DefaultAnchorScan(begin, c, e, index) ==
    IF ~(c < NTok) \/ ~HasTok(c + 1)
    THEN LET at == IF c < NTok THEN c + 1 ELSE c
         IN  DefaultScanEnd("return", at, << >>, None, ParseErr("default_parsing_eol", at - 1))
    ELSE LET c1 == c + 1
             token == Tok(c1)
         IN  IF IsSome(index) \/ IsAsciiWhitespace(token) \/ token = DEFAULT_PIPE
                \/ token = ANCHOR_CLOSE
             THEN IF ~SliceOk(tokens, begin, e)
                  THEN DefaultScanEnd("return", c1, << >>, None, Panicked)
                  ELSE IF ~NameIsValid(Slice(tokens, begin, e))
                  THEN DefaultScanEnd("return", c1, << >>, None,
                                      ParseErr("invalid_anchor_name", c1 - 1))
                  ELSE DefaultScanEnd("push", c1, Slice(tokens, begin, e), index, Running)
             ELSE IF token = INDEX_OPEN
             THEN LET index_begin == c1 + 1
                      scan == DefaultIndexScan(index_begin, DefaultIndexEnd(index_begin),
                                               IF index_begin < NTok THEN NTok - index_begin
                                               ELSE 0)
                      parsed == ParseUsize(Slice(tokens, index_begin, scan.end))
                  IN  IF scan.eol
                      THEN DefaultScanEnd("return", scan.cursor, << >>, None,
                                          ParseErr("index_parsing_eol", scan.cursor - 1))
                      ELSE IF ~SliceOk(tokens, index_begin, scan.end)
                      THEN DefaultScanEnd("return", scan.cursor, << >>, None, Panicked)
                      ELSE IF parsed = None
                      THEN DefaultScanEnd("return", scan.cursor, << >>, None,
                                          ParseErr("invalid_index", scan.cursor - 1))
                      ELSE DefaultAnchorScan(begin, scan.cursor, e, parsed)
             ELSE DefaultAnchorScan(begin, c1, e + 1, index)

AnchorParseDefaultAnchor ==
    /\ InMode("AnchorParseDefaultAnchor")
    /\ LET from == cursor + 1
           begin == IF from < NTok THEN SkipWhitespaceFrom(from) ELSE from
           scan == DefaultAnchorScan(begin, begin, begin + 1, None)
       IN  IF scan.tag = "return" THEN Return(scan.cursor, scan.result)
           ELSE IF bound_anchor = None THEN Return(scan.cursor, Unexpected)
           ELSE ParserStep(scan.cursor, "AnchorParseBase",
                           Some([Unwrap(bound_anchor) EXCEPT
                                   !.defaults = Append(@, DefaultAnchor(scan.name, scan.index))]),
                           anchors, result)

\* mod.rs:469-492: the scan of an attribute's `(args)`, from cursor c
RECURSIVE ParamScan(_, _, _)
ParamScan(c, params_end, open_quote) ==
    IF ~HasTok(c) THEN [tag |-> "eof", cursor |-> c, params_end |-> params_end]
    ELSE LET token == Tok(c)
         IN  IF token = PARAM_CLOSE /\ open_quote = None
             THEN [tag |-> "close", cursor |-> c, params_end |-> params_end]
             ELSE IF token = ESCAPE THEN ParamScan(c + 2, params_end + 1, open_quote)
             ELSE IF token \in {LITERAL_SINGLE_QUOTE, LITERAL_DOUBLE_QUOTE}
             THEN IF IsSome(open_quote)
                  THEN IF token # Unwrap(open_quote)
                       THEN [tag |-> "mismatch", cursor |-> c, params_end |-> params_end]
                       ELSE ParamScan(c + 1, params_end + 1, None)
                  ELSE ParamScan(c + 1, params_end + 1, Some(token))
             ELSE ParamScan(c + 1, params_end + 1, open_quote)

RawAttr(name, args) == [name |-> name, args |-> args]

\* mod.rs:446, 453: a written name is kept when it is longer than this
MinAttrSpan == 1

AttrScanEnd(tag, c, start, raw_attrs, r) ==
    [tag |-> tag, cursor |-> c, start |-> start, raw_attrs |-> raw_attrs, result |-> r]

\* mod.rs:440-497: the while loop, from cursor c
RECURSIVE AttrScan(_, _, _)
AttrScan(c, start, raw_attrs) ==
    IF ~(c < NTok) \/ ~HasTok(c + 1)
    THEN LET at == IF c < NTok THEN c + 1 ELSE c
         IN  AttrScanEnd("unclosed", at, start, raw_attrs,
                         ParseErr("attribute_unclosed", start))
    ELSE LET c1 == c + 1
             token == Tok(c1)
         IN  IF token = ATTRIBUTE_CLOSE
             THEN IF c1 - start > MinAttrSpan
                  THEN IF ~SliceOk(tokens, start, c1)
                       THEN AttrScanEnd("return", c1, start, raw_attrs, Panicked)
                       ELSE AttrScanEnd("closed", c1, start,
                                        Append(raw_attrs, RawAttr(Slice(tokens, start, c1), None)),
                                        Running)
                  ELSE AttrScanEnd("closed", c1, start, raw_attrs, Running)
             ELSE IF token = ATTRIBUTE_DELIMETER \/ token = PARAM_OPEN
             THEN IF c1 - start <= MinAttrSpan THEN AttrScan(c1, c1 + 1, raw_attrs)
                  ELSE IF ~SliceOk(tokens, start, c1)
                  THEN AttrScanEnd("return", c1, start, raw_attrs, Panicked)
                  ELSE LET attr == Slice(tokens, start, c1)
                       IN  IF token = PARAM_OPEN
                           THEN LET params_start == c1 + 1
                                    scan == ParamScan(params_start, params_start, None)
                                    start2 == IF scan.tag = "close" THEN scan.cursor ELSE c1 + 1
                                IN  IF scan.tag = "mismatch"
                                    THEN AttrScanEnd("return", scan.cursor, c1 + 1, raw_attrs,
                                           ParseErr("string_parameter_missing_closing_quote",
                                                    c1 + 1))
                                    ELSE IF ~SliceOk(tokens, params_start, scan.params_end)
                                    THEN AttrScanEnd("return", scan.cursor, start2, raw_attrs,
                                                     Panicked)
                                    ELSE AttrScan(scan.cursor, start2,
                                           Append(raw_attrs,
                                                  RawAttr(attr, Some(Slice(tokens, params_start,
                                                                           scan.params_end)))))
                           ELSE AttrScan(c1, c1 + 1, Append(raw_attrs, RawAttr(attr, None)))
             ELSE AttrScan(c1, start, raw_attrs)

\* mod.rs:508-511: the attributes in written order, or the first error
RECURSIVE ParseRawAttrs(_)
ParseRawAttrs(raw_attrs) ==
    IF raw_attrs = << >> THEN [ok |-> TRUE, attrs |-> << >>, error |-> ""]
    ELSE LET one == AttributeParseOne(Head(raw_attrs).name, Head(raw_attrs).args)
             rest == ParseRawAttrs(Tail(raw_attrs))
         IN  IF ~one.ok THEN [ok |-> FALSE, attrs |-> << >>, error |-> one.error]
             ELSE IF ~rest.ok THEN rest
             ELSE [ok |-> TRUE, attrs |-> << one.attr >> \o rest.attrs, error |-> ""]

\* A variant whose comparator never answers Less, which leaves the list as written
AlignLessNever(a, b) == FALSE

\* mod.rs:514-522: the comparator, Ordering::Less
AlignLess(a, b) == a.kind = "Align"

\* slice::sort_by on a short slice: a stable insertion sort, each element moved
\* left while it compares Less than the one before it
RECURSIVE InsertLeft(_, _)
InsertLeft(sorted, x) ==
    IF sorted # << >> /\ AlignLess(x, sorted[Len(sorted)])
    THEN Append(InsertLeft(SubSeq(sorted, 1, Len(sorted) - 1), x), sorted[Len(sorted)])
    ELSE Append(sorted, x)

\* A variant that leaves the attributes in the order of the written list
SortAsWritten(sorted, rest) == sorted \o rest

RECURSIVE SortAlignFirst(_, _)
SortAlignFirst(sorted, rest) ==
    IF rest = << >> THEN sorted ELSE SortAlignFirst(InsertLeft(sorted, Head(rest)), Tail(rest))

AttributeParse ==
    /\ InMode("AttributeParse")
    /\ LET scan == AttrScan(cursor + 1, cursor + 1, << >>)
           c == scan.cursor + 1
           parsed == ParseRawAttrs(scan.raw_attrs)
       IN  IF scan.tag # "closed" THEN Return(scan.cursor, scan.result)
           ELSE IF ~(HasTok(c) /\ Tok(c) = ATTRIBUTE_END)
           THEN Return(c, ParseErr("attribute_end", c - 1))
           ELSE IF ~parsed.ok THEN Return(c, OtherErr(parsed.error))
           ELSE IF bound_anchor = None THEN Return(c, Unexpected)
           ELSE ParserStep(c + 1, "AnchorParseBase",
                           Some([Unwrap(bound_anchor) EXCEPT
                                   !.attributes = SortAlignFirst(<< >>, parsed.attrs)]),
                           anchors, result)


(***************************************************************************)
(* OutputTemplate::parse (template/mod.rs:33-64)                           *)
(***************************************************************************)
LiteralTarget(text) == [kind |-> "Literal", text |-> text, anchor |-> NewAnchor(0)]
AnchorTarget(anchor) == [kind |-> "Anchor", text |-> << >>, anchor |-> anchor]

\* template.len(): the length in bytes
ByteLen == Len(Bytes(tokens))

\* mod.rs:52: where the text after an anchor begins
LeftAfter(anchor) == anchor.end

\* mod.rs:41-56: the anchors from the k-th on, with left_cursor, right_cursor and the
\* targets so far; [panic, left, right, targets]
RECURSIVE BuildTargets(_, _, _, _)
BuildTargets(k, left, right, acc) ==
    IF k > Len(anchors) THEN [panic |-> FALSE, left |-> left, right |-> right, targets |-> acc]
    ELSE LET anchor == anchors[k]
             met == left <= anchor.start /\ anchor.start < ByteLen
             gap == left # anchor.start
         IN  IF ~met
             THEN BuildTargets(k + 1, left, IF left < ByteLen THEN ByteLen - 1 ELSE right, acc)
             ELSE IF gap /\ ~StrSliceOk(tokens, left, anchor.start)
             THEN [panic |-> TRUE, left |-> left, right |-> anchor.start, targets |-> acc]
             ELSE BuildTargets(k + 1, LeftAfter(anchor),
                               IF anchor.start = ByteLen - 1 THEN LeftAfter(anchor)
                               ELSE ByteLen - 1,
                               (IF gap
                                THEN Append(acc, LiteralTarget(StrSlice(tokens, left, anchor.start)))
                                ELSE acc) \o << AnchorTarget(anchor) >>)

\* mod.rs:57-62: the text after the last anchor
WithTail(b) ==
    IF b.right = ByteLen THEN b
    ELSE IF ~StrSliceOk(tokens, b.left, ByteLen) THEN [b EXCEPT !.panic = TRUE]
    ELSE IF StrSlice(tokens, b.left, ByteLen) = << >> THEN b
    ELSE [b EXCEPT !.targets = Append(@, LiteralTarget(StrSlice(tokens, b.left, ByteLen)))]

OutputTemplateParse ==
    /\ result.status \in {"ok", "err"}
    /\ built = "none"
    /\ IF result.status = "err"
       THEN built' = "err" /\ targets' = targets
       ELSE LET b == BuildTargets(1, 0, 0, << >>)
                t == IF b.panic THEN b ELSE WithTail(b)
            IN  IF t.panic THEN built' = "panic" /\ targets' = << >>
                ELSE built' = "ok" /\ targets' = t.targets
    /\ UNCHANGED << parser_vars, transform_vars, driver_vars >>

(***************************************************************************)
(* OutputTemplate::transform (template/mod.rs:71-126)                      *)
(***************************************************************************)
\* interpolation_map.get(name).and_then(|vals| vals.get(index))
Lookup(map, name, index) ==
    IF name \in DOMAIN map /\ index < Len(map[name]) THEN Some(map[name][index + 1]) ELSE None

\* A variant that always reads the first element
IndexIgnored(index) == 0

\* Option<usize>::unwrap_or_default
IndexOrDefault(index) == IF IsSome(index) THEN Unwrap(index) ELSE 0

\* A variant that pushes every value as it is
Unstyled(val, attributes) == Bytes(val)

\* mod.rs:81-86: the value as pushed to `out`
Stylized(val, attributes) ==
    Bytes(IF attributes = << >> THEN val ELSE AttributeApply(val, attributes))

\* A variant that passes over every Anchor default
DefaultStopsOnLiteral(d, val) == d.kind = "Literal"

\* mod.rs:103, 115: the defaults at which the loop pushes a value and breaks
DefaultStops(d, val) == d.kind = "Literal" \/ IsSome(val)

\* mod.rs:95-120: what the loop over the defaults pushes
RECURSIVE DefaultsLoop(_, _, _)
DefaultsLoop(defaults, map, attributes) ==
    IF defaults = << >> THEN << >>
    ELSE LET d == Head(defaults)
             val == Lookup(map, d.name, IndexOrDefault(d.index))
         IN  IF DefaultStops(d, val)
             THEN Stylized(IF d.kind = "Literal" THEN d.val ELSE Unwrap(val), attributes)
             ELSE DefaultsLoop(Tail(defaults), map, attributes)

\* A variant in which a required anchor is treated as any other
AbortsNever(anchor, val) == FALSE

\* A variant in which every anchor without a value ends the call
AbortsOnAnyMissing(anchor, val) == val = None

\* mod.rs:91: a required anchor without a value ends the call
Aborts(anchor, val) == val = None /\ anchor.required

\* mod.rs:74-125: the targets from the k-th on; [aborted, pieces]
RECURSIVE TransformLoop(_, _, _, _)
TransformLoop(tgts, map, k, acc) ==
    IF k > Len(tgts) THEN [aborted |-> FALSE, pieces |-> acc]
    ELSE LET target == tgts[k]
             anchor == target.anchor
             val == Lookup(map, anchor.name, IndexOrDefault(anchor.index))
         IN  IF target.kind = "Literal"
             THEN TransformLoop(tgts, map, k + 1, Append(acc, target.text))
             ELSE IF IsSome(val)
             THEN TransformLoop(tgts, map, k + 1,
                                Append(acc, Stylized(Unwrap(val), anchor.attributes)))
             ELSE IF Aborts(anchor, val) THEN [aborted |-> TRUE, pieces |-> acc]
             ELSE TransformLoop(tgts, map, k + 1,
                                Append(acc, DefaultsLoop(anchor.defaults, map,
                                                         anchor.attributes)))

RECURSIVE Concat(_)
Concat(seqs) == IF seqs = << >> THEN << >> ELSE Head(seqs) \o Concat(Tail(seqs))

(***************************************************************************)
(* The inputs of the model                                                 *)
(***************************************************************************)
\* Every template of at most MaxLen characters of Alphabet
MaxLen == 3
Alphabet == {"{", "}", "a", "[", "]", "1", "|", "'", "!", "\\", " ", E_ACUTE}
ShortTemplates == UNION {[1..n -> Alphabet] : n \in 0..MaxLen}

\* and every template made of at most MaxSegments of these segments
MaxSegments == 2
Segments ==
    {<< "x" >>,
     << "U+E9" >>,
     << "\\", "{" >>,
     << "\\" >>,
     << "{", "a", "}" >>,
     << "{", "!", "a", "}" >>,
     << "{", "a", "[", "1", "]", "}" >>,
     << "{", "a", "|", "|", "b", "}" >>,
     << "{", "a", " ", "|", "|", " ", "b", "[", "1", "]", "}" >>,
     << "{", "a", " ", "|", "|", " ", "'", "c", "'", "}" >>,
     << "{", "a", "[", "1", "]", "|", "|", "b", "|", "|", "a", " ", "|", "|", " ", "\"", "c", "\"", "}" >>,
     << "{", "'", "c", "'", "}" >>,
     << "{", "!", "'", "c", "'", "}" >>,
     << "{", "(", "r", "e", "d", ")", ":", "a", "}" >>,
     << "x", "{", "a", "}" >>,
     << "{", "a" >>,
     << "{", "a", "[", "1", "]" >>,
     << "{", "a", "|", "|", "b", "[" >>,
     << "{", "a", "|", "|", "b", "[", "1" >>,
     << "{", "a", "|", "|", "'", "c", "'", "}" >>,
     << "{", "!", "a", "|", "|", "b", "}" >>,
     << "{", "!", "a", " ", "|", "|", " ", "'", "c", "'", "}" >>,
     << "{", "(", "r", "e", "d" >>,
     << "{", "(", "z", "z", ")", ":", "a", "}" >>,
     << "{", "a", " ", "[", "1", "]", "}" >>}

RECURSIVE SegmentTemplates(_)
SegmentTemplates(n) ==
    IF n = 0 THEN {<< >>}
    ELSE LET shorter == SegmentTemplates(n - 1)
         IN  shorter \cup {t \o s : t \in shorter, s \in Segments}

Templates == ShortTemplates \cup SegmentTemplates(MaxSegments)

\* The capture names of the patterns and the values a line can give one of them
CaptureNames == {<< "a" >>, << "b" >>}
ValueLists == {<< >>, << << "v" >> >>, << << >>, << "w" >> >>}

\* The names a template's anchors and their defaults mention
Mentioned(tgts) ==
    UNION {{tgts[k].anchor.name}
           \cup {tgts[k].anchor.defaults[j].name : j \in 1..Len(tgts[k].anchor.defaults)}
           : k \in {i \in 1..Len(tgts) : tgts[i].kind = "Anchor"}}

\* The maps of a line: the keys are capture names; a name the template does not
\* mention is never looked up and is left out
Maps(tgts) ==
    UNION {[keys -> ValueLists] : keys \in SUBSET (CaptureNames \cap Mentioned(tgts))}

\* A variant in which a call goes on from what the call before it pushed
KeptOut(previous) == previous

\* mod.rs:72: `let mut out = String::new()`, whatever the call before left
NewOut(previous) == << >>

Transform ==
    /\ built = "ok"
    /\ \E map \in Maps(targets) :
         LET run == TransformLoop(targets, map, 1, NewOut(pieces))
         IN  /\ interpolation_map' = Some(map)
             /\ pieces' = run.pieces
             /\ out' = IF run.aborted THEN << >> ELSE Concat(run.pieces)
    /\ UNCHANGED << parser_vars, template_vars, driver_vars >>

\* line.rs run before it is called, with no pattern
RunNotStarted ==
    /\ process_args = [output_template_ok |-> FALSE, pattern |-> << >>, files_ok |-> FALSE]
    /\ captures_map = None
    /\ line = << >>
    /\ line_captures_map = None
    /\ run_pc = "start"

\* No writer: nothing buffered, nothing written
WriterNotStarted ==
    /\ buffer = << >>
    /\ stdout_lock = << >>
    /\ passed = << >>
    /\ writeln_result = "none"
    /\ dropped = FALSE
    /\ stdout_failed = FALSE

\* No scanner: no path given
ScannerNotStarted ==
    /\ file_paths = << >>
    /\ buf_readers = None
    /\ current_buf_reader_idx = 0
    /\ yielded = << >>
    /\ next_result = [call |-> "none", item |-> None]

Init ==
    /\ RunNotStarted /\ WriterNotStarted /\ ScannerNotStarted
    /\ tokens \in Templates
    /\ cursor = 0
    /\ mode = "Base"
    /\ bound_anchor = None
    /\ recursion_depth = 0
    /\ anchors = << >>
    /\ result = Running
    /\ targets = << >>
    /\ built = "none"
    /\ interpolation_map = None
    /\ pieces = << >>
    /\ out = << >>

Next ==
    \/ Base
    \/ Escaping
    \/ AnchorBegin
    \/ AttributeParse
    \/ AnchorParseBase
    \/ AnchorParseIndex
    \/ AnchorParseDefaultValue
    \/ AnchorParseDefaultLiteral
    \/ AnchorParseDefaultAnchor
    \/ OutputTemplateParse
    \/ Transform

Spec == Init /\ [][Next]_vars

(***************************************************************************)
(* Templates whose anchors have attribute lists                            *)
(***************************************************************************)
AttributeSegments ==
    {<< "x" >>,
     << "\\", "{" >>,
     << "{", "(", "r", "e", "d", ")", ":", "a", "}" >>,
     << "{", "!", "(", "b", "o", "l", "d", ")", ":", "a", "}" >>,
     << "{", "!", "(", "b", "o", "l", "d", ")", ":", "'", "c", "'", "}" >>,
     << "{", "(", "b", "o", "l", "d", ")", ":", "'", "c", "'", "}" >>,
     << "{", "'", "'", "}" >>,
     << "{", "(", "l", "a", "l", "i", "g", "n", "(", "3", ")", "|", "?", "r", "e", "d", "(", "'", "v", "'", ")", ")", ":", "a", "}" >>,
     << "{", "(", "r", "e", "d", "|", "l", "a", "l", "i", "g", "n", "(", "3", ")", "|", "b", "o", "l", "d", "|", "r", "a", "l", "i", "g", "n", "(", "2", ")", ")", ":", "a", "}" >>,
     << "{", "(", "r", "e", "d", "|", "?", "b", "o", "l", "d", "(", "'", "m", "'", ")", "|", "l", "a", "l", "i", "g", "n", "(", "3", ")", "|", "r", "e", "v", "e", "r", "s", "e", ")", ":", "a", "}" >>,
     << "{", "(", "r", "e", "d", ")", ":", "a", "[", "1", "]", "|", "|", "a", " ", "|", "|", " ", "'", "c", "'", "}" >>,
     << "{", "(", "l", "a", "l", "i", "g", "n", "(", "0", ")", ")", ":", "a", "}" >>,
     << "{", "(", "c", "a", "l", "i", "g", "n", "(", "3", ",", "4", ")", ")", ":", "a", "}" >>,
     << "{", "(", "z", ")", ":", "a", "}" >>,
     << "{", "(", "z", "z", ")", ":", "a", "}" >>,
     << "{", "(", "r", "e", "d" >>}

RECURSIVE AttributeSegmentTemplates(_)
AttributeSegmentTemplates(n) ==
    IF n = 0 THEN {<< >>}
    ELSE LET shorter == AttributeSegmentTemplates(n - 1)
         IN  shorter \cup {t \o s : t \in shorter, s \in AttributeSegments}

AttributeTemplates == AttributeSegmentTemplates(MaxSegments)

AttributeInit ==
    /\ RunNotStarted /\ WriterNotStarted /\ ScannerNotStarted
    /\ tokens \in AttributeTemplates
    /\ cursor = 0
    /\ mode = "Base"
    /\ bound_anchor = None
    /\ recursion_depth = 0
    /\ anchors = << >>
    /\ result = Running
    /\ targets = << >>
    /\ built = "none"
    /\ interpolation_map = None
    /\ pieces = << >>
    /\ out = << >>

AttributeSpec == AttributeInit /\ [][Next]_vars

(***************************************************************************)
(* Templates whose anchors have indexes and default chains                 *)
(***************************************************************************)
ChainSegments ==
    {<< "x" >>,
     << "\\", "{" >>,
     << "{", "a", "}" >>,
     << "{", "a", "[", "1", "]", "}" >>,
     << "{", "a", "[", "+", "1", "]", "}" >>,
     << "{", "a", "[", "]", "}" >>,
     << "{", "a", "|", "|", "b", "}" >>,
     << "{", "a", " ", "|", "|", " ", "b", "[", "1", "]", "}" >>,
     << "{", "a", " ", "|", "|", " ", "'", "c", "'", "}" >>,
     << "{", "a", " ", "|", "|", " ", "'", "c", "\\", "c", "'", "}" >>,
     << "{", "a", "[", "1", "]", "|", "|", "b", "|", "|", "a", " ", "|", "|", " ", "\"", "c", "\"", "}" >>,
     << "{", "(", "r", "e", "d", ")", ":", "a", "}" >>}

RECURSIVE ChainSegmentTemplates(_)
ChainSegmentTemplates(n) ==
    IF n = 0 THEN {<< >>}
    ELSE LET shorter == ChainSegmentTemplates(n - 1)
         IN  shorter \cup {t \o s : t \in shorter, s \in ChainSegments}

ChainTemplates == ChainSegmentTemplates(MaxSegments)

ChainInit ==
    /\ RunNotStarted /\ WriterNotStarted /\ ScannerNotStarted
    /\ tokens \in ChainTemplates
    /\ cursor = 0
    /\ mode = "Base"
    /\ bound_anchor = None
    /\ recursion_depth = 0
    /\ anchors = << >>
    /\ result = Running
    /\ targets = << >>
    /\ built = "none"
    /\ interpolation_map = None
    /\ pieces = << >>
    /\ out = << >>

ChainSpec == ChainInit /\ [][Next]_vars

(***************************************************************************)
(* Claims                                                                  *)
(***************************************************************************)
\* A call of parse_impl was made by this step
ParserCall == recursion_depth' # recursion_depth

\* The scan of AnchorParseBase finds none of its tokens up to the template's end
BodyRunsOut == {i \in cursor..(NTok - 1) : Tok(i) \in BodyStops} = {}

\* C1: parse reaches a result after finitely many parse_impl calls.  parse_impl is a
\* function of (tokens, cursor, mode, bound_anchor, anchors), so it reaches a result
\* only if no call that leaves the parse running hands the next call the state it
\* was given itself.
C1_EveryCallProgresses ==
    [][(ParserCall /\ result'.status = "running")
       => << cursor', mode', bound_anchor', anchors' >>
          # << cursor, mode, bound_anchor, anchors >>]_vars

\* C2: when the template ends while the anchor body is scanned (no index, close,
\* pipe or quote token from the cursor to the end), the call returns the
\* unclosed-anchor error, which carries a character index.
C2_UnclosedAnchorReported ==
    [][(ParserCall /\ mode = "AnchorParseBase" /\ IsSome(bound_anchor) /\ BodyRunsOut)
       => /\ result'.status = "err"
          /\ result'.kind = "unclosed_anchor"
          /\ IsSome(result'.char_index)]_vars

\* C3: parse returns Ok or Err for every template; no parser state slices the tokens
\* outside 0 <= begin <= end <= tokens.len().
C3_NoSliceOutOfRange == result.status # "panic"

\* The anchors of the returned list, and the ones among them the template requires
Returned == IF result.status = "ok" THEN {anchors[k] : k \in 1..Len(anchors)} ELSE {}
RequiredAnchors == {a \in Returned : a.required}

\* C4 as stated: every anchor of a returned list with required = true has an empty
\* defaults list, whichever syntax introduced the default.
C4_RequiredHasNoDefaults == \A a \in RequiredAnchors : a.defaults = << >>

\* C4 as the code has it: a required anchor never takes a default from a `||` chain,
\* the call that enters the default-value state with it returns the
\* default-disallowed-with-required error; a quoted literal written directly in the
\* body is accepted, so the defaults of a required anchor of a returned list are
\* all Literal values.
C4_RequiredHasNoChainedDefaults ==
    /\ [](\A a \in RequiredAnchors :
            \A j \in 1..Len(a.defaults) : a.defaults[j].kind = "Literal")
    /\ [][(ParserCall /\ mode = "AnchorParseDefaultValue" /\ IsSome(bound_anchor)
           /\ Unwrap(bound_anchor).required)
          => /\ result'.status = "err"
             /\ result'.kind = "default_disallowed_with_required"]_vars

\* C4: a returned list holds a required anchor with a default, as `{!'c'}` gives
C4_RequiredWithLiteral == \E a \in RequiredAnchors : a.defaults # << >>

\* C5: for every template that parses, each anchor's start and end are byte offsets:
\* the byte slice template[start..end] exists and is the anchor's source text, from
\* its open token to its close token.
C5_SpansAreByteOffsets ==
    \A a \in Returned :
        /\ StrSliceOk(tokens, a.start, a.end)
        /\ StrSlice(tokens, a.start, a.end) = Bytes(Slice(tokens, a.start, a.end))
        /\ Tok(a.start) = ANCHOR_OPEN
        /\ Tok(a.end - 1) = ANCHOR_CLOSE

\* What a target gives to the concatenation
TargetText(t) ==
    IF t.kind = "Literal" THEN t.text ELSE StrSlice(tokens, t.anchor.start, t.anchor.end)

\* C6: for every template that parses, OutputTemplate::parse builds targets that,
\* each Literal giving its text and each Anchor giving template[start..end],
\* concatenate in order to the template.
C6_TargetsTileTemplate ==
    (result.status = "ok" /\ built # "none")
    => /\ built = "ok"
       /\ \A k \in 1..Len(targets) :
            targets[k].kind = "Anchor"
            => StrSliceOk(tokens, targets[k].anchor.start, targets[k].anchor.end)
       /\ Concat([k \in 1..Len(targets) |-> TargetText(targets[k])]) = Bytes(tokens)

\* C7: in a returned list the anchors are in increasing order of start and do not
\* overlap: a.start < a.end <= b.start for consecutive a, b; tokens[a.start] is the
\* open token and tokens[a.end - 1] the close token.
C7_AnchorsOrderedDisjoint ==
    result.status = "ok"
    => \A k \in 1..Len(anchors) :
         /\ 0 <= anchors[k].start
         /\ anchors[k].start < anchors[k].end
         /\ anchors[k].end <= NTok
         /\ Tok(anchors[k].start) = ANCHOR_OPEN
         /\ Tok(anchors[k].end - 1) = ANCHOR_CLOSE
         /\ k < Len(anchors) => anchors[k].end <= anchors[k + 1].start

\* C7: a returned list holds two anchors with text between them
C7_TwoAnchorsReturned ==
    /\ result.status = "ok"
    /\ Len(anchors) >= 2
    /\ anchors[1].end < anchors[2].start

\* transform has been called with interpolation_map
Called == IsSome(interpolation_map)

\* The index an anchor or a default reads: the written one, 0 when none is written
ReadIndex(index) == IF index = << >> THEN 0 ELSE index[1]

\* The map has a value for the name at the index read
HasValue(name, index) ==
    /\ name \in DOMAIN Unwrap(interpolation_map)
    /\ ReadIndex(index) < Len(Unwrap(interpolation_map)[name])

ValueOf(name, index) == Unwrap(interpolation_map)[name][ReadIndex(index) + 1]

\* The targets the call went through before it returned
Visited == {k \in 1..Len(pieces) : targets[k].kind = "Anchor"}

\* C8: transform returns the empty string whenever a required anchor of the template
\* has no value at its index in the map (key absent or list too short), whatever
\* comes before or after it and whatever was accumulated.
C8_RequiredMissingEmptiesOutput ==
    (Called /\ \E a \in RequiredAnchors : ~HasValue(a.name, a.index)) => out = << >>

\* C8: a call went through targets that pushed text, met a required anchor without
\* a value before the last target and returned the empty string
C8_OutputDiscarded ==
    /\ Called
    /\ \E a \in RequiredAnchors : ~HasValue(a.name, a.index)
    /\ \E k \in 1..Len(pieces) : pieces[k] # << >>
    /\ Len(pieces) < Len(targets)
    /\ out = << >>

\* C9: for an anchor whose name is a key of the map with an element at the anchor's
\* index (0 when none is written), transform pushes exactly that element with the
\* anchor's attributes applied, whatever the anchor's defaults are, and a call that
\* no required anchor ends returns the pushed values in the order of the targets.
C9_PresentValueEmitted ==
    Called
    => /\ \A k \in Visited :
            LET a == targets[k].anchor
            IN  HasValue(a.name, a.index)
                => pieces[k] = Bytes(IF a.attributes = << >>
                                     THEN ValueOf(a.name, a.index)
                                     ELSE AttributeApply(ValueOf(a.name, a.index),
                                                         a.attributes))
       /\ Len(pieces) = Len(targets) => out = Concat(pieces)

\* C9: an anchor with a written index above 0 and with defaults found a non-empty
\* value at its index, and the call returned text
C9_PresentValueBeatsDefaults ==
    /\ Called
    /\ \E k \in Visited :
         LET a == targets[k].anchor
         IN  /\ HasValue(a.name, a.index)
             /\ IsSome(a.index)
             /\ ReadIndex(a.index) > 0
             /\ a.defaults # << >>
             /\ ValueOf(a.name, a.index) # << >>
    /\ out # << >>

\* The defaults of an anchor that give a value: the Literals and the Anchors whose
\* name and index have a value in the map
Usable(a) ==
    {j \in 1..Len(a.defaults) :
        \/ a.defaults[j].kind = "Literal"
        \/ HasValue(a.defaults[j].name, a.defaults[j].index)}

DefaultText(d) == IF d.kind = "Literal" THEN d.val ELSE ValueOf(d.name, d.index)

UsableNonEmpty(a) == {j \in Usable(a) : DefaultText(a.defaults[j]) # << >>}

\* C11: when transform falls back to the defaults, a default that resolves to the
\* empty string is passed over: whenever some default resolves to a non-empty value,
\* the first such default is the one pushed, with the anchor's attributes applied.
C11_FirstNonEmptyDefaultWins ==
    Called
    => \A k \in Visited :
         LET a == targets[k].anchor
         IN  (~a.required /\ ~HasValue(a.name, a.index) /\ UsableNonEmpty(a) # {})
             => LET d == a.defaults[SetMin(UsableNonEmpty(a))]
                IN  pieces[k] = Bytes(IF a.attributes = << >> THEN DefaultText(d)
                                      ELSE AttributeApply(DefaultText(d), a.attributes))

\* A visited anchor that is not required and has neither a value nor a usable default
Unresolved(k) ==
    LET a == targets[k].anchor
    IN  ~a.required /\ ~HasValue(a.name, a.index) /\ Usable(a) = {}

\* C12: a non-required anchor with no primary value and no default that yields a
\* value pushes nothing; unless a required anchor lacks its value, the call goes
\* through every target, each literal gives its text, and the result is what the
\* targets pushed, in template order.
C12_UnresolvedAnchorGivesNothing ==
    Called
    => /\ \A k \in Visited : Unresolved(k) => pieces[k] = << >>
       /\ (\A a \in RequiredAnchors : HasValue(a.name, a.index))
          => /\ Len(pieces) = Len(targets)
             /\ \A k \in 1..Len(targets) :
                  targets[k].kind = "Literal" => pieces[k] = targets[k].text
             /\ out = Concat(pieces)

\* C12: a call met an anchor that resolves to nothing, between or beside targets
\* that pushed text, and returned that text
C12_RestStillEmitted ==
    /\ Called
    /\ \E k \in Visited : Unresolved(k)
    /\ Len(targets) >= 2
    /\ out # << >>

\* The template's first anchor, after plain text, is `{!name` followed, with or
\* without whitespace, by `||` at position q
RequiredNameThenPipes(p, q) ==
    /\ HasTok(q + 1) /\ p + 2 < q
    /\ Tok(p) = ANCHOR_OPEN /\ Tok(p + 1) = REQUIRED
    /\ Tok(q) = DEFAULT_PIPE /\ Tok(q + 1) = DEFAULT_PIPE
    /\ \A i \in 0..(p - 1) : Tok(i) \notin {ESCAPE, ANCHOR_OPEN}
    /\ LET body == Slice(tokens, p + 2, q)
       IN  /\ \A i \in 1..Len(body) : body[i] \in AnchorCharset \/ IsAsciiWhitespace(body[i])
           /\ StripWhitespace(body) # << >>

\* C13: a template whose anchor starts with `!` and has `||` after its name fails
\* with the default-disallowed-with-required error, whatever follows the `||`; the
\* error comes from the default-value state with the cursor still on the `||`.
C13_RequiredWithChainFails ==
    LET opens == {i \in 0..(NTok - 1) : Tok(i) \in {ESCAPE, ANCHOR_OPEN}}
        p == SetMin(opens)
        pipes == {i \in (p + 1)..(NTok - 1) : Tok(i) = DEFAULT_PIPE}
        q == SetMin(pipes)
    IN  (/\ result.status # "running"
         /\ opens # {}
         /\ pipes # {}
         /\ RequiredNameThenPipes(p, q))
        => /\ result.status = "err"
           /\ result.kind = "default_disallowed_with_required"
           /\ mode = "AnchorParseDefaultValue"
           /\ cursor = q + 1

\* C13: the error was returned for a `!` anchor whose `||` has whitespace before it
\* and a quoted literal after it
C13_RequiredWithSpacedLiteral ==
    /\ result.status = "err"
    /\ \E p, q \in 0..(NTok - 1) :
         /\ RequiredNameThenPipes(p, q)
         /\ IsAsciiWhitespace(Tok(q - 1))
         /\ \E i \in (q + 2)..(NTok - 1) : Tok(i) = LITERAL_SINGLE_QUOTE

\* An anchor written as quoted literals only
PureLiteral(a) ==
    /\ a.defaults # << >>
    /\ \A j \in 1..Len(a.defaults) : a.defaults[j].kind = "Literal"

\* C14: every anchor of a returned list has a non-empty name made of the
\* characters of the identifier charset, or an empty name and only quoted-literal
\* defaults; no anchor with another name is returned, with or without a `||` chain.
C14_ReturnedNamesValid ==
    \A a \in Returned :
        \/ a.name # << >> /\ NameIsValid(a.name)
        \/ a.name = << >> /\ PureLiteral(a)

\* The anchor `{a||d}` written with n1 blanks before the `||`, n2 after it and n3
\* before the close token
Spaced(n1, n2, n3, d) ==
    << ANCHOR_OPEN, "a" >> \o Spaces(n1) \o << DEFAULT_PIPE, DEFAULT_PIPE >> \o Spaces(n2)
    \o d \o Spaces(n3) \o << ANCHOR_CLOSE >>

\* The default values written in the anchors compared, with what each one denotes
WrittenDefaults ==
    { [text |-> << "'", "c", "'" >>, value |-> DefaultLiteral(<< "c" >>)],
      [text |-> << "b" >>, value |-> DefaultAnchor(<< "b" >>, None)] }

\* C15: the whitespace written between the name and `||`, between `||` and the
\* default value, and before the close token changes nothing: every such writing of
\* `{a||'c'}` and of `{a||b}` parses, to the one anchor a, not required, without
\* index, with that one default.
C15_WhitespaceInsignificant ==
    \A n1, n2, n3 \in 0..1 : \A d \in WrittenDefaults :
        (tokens = Spaced(n1, n2, n3, d.text) /\ result.status # "running")
        => /\ result.status = "ok"
           /\ Len(anchors) = 1
           /\ anchors[1].name = << "a" >>
           /\ anchors[1].index = None
           /\ ~anchors[1].required
           /\ anchors[1].defaults = << d.value >>

NotAlign(attr) == attr.kind # "Align"
IsAlign(attr) == attr.kind = "Align"

\* The attributes of an anchor in the order in which its `(..)` list gives them
WrittenAttributes(a) ==
    LET open == IF Tok(a.start + 1) = REQUIRED THEN a.start + 2 ELSE a.start + 1
    IN  IF HasTok(open) /\ Tok(open) = ATTRIBUTE_OPEN
        THEN ParseRawAttrs(AttrScan(open + 1, open + 1, << >>).raw_attrs).attrs
        ELSE << >>

\* C16: in the attribute list of every returned anchor no Align attribute comes
\* after another kind of attribute, the other attributes are in the order in which
\* they were written, and the Align attributes are the written ones.
C16_AlignFirstOthersInOrder ==
    \A a \in Returned :
        LET attrs == a.attributes
            written == WrittenAttributes(a)
        IN  /\ \A i, j \in 1..Len(attrs) : (i < j /\ IsAlign(attrs[j])) => IsAlign(attrs[i])
            /\ SelectSeq(attrs, NotAlign) = SelectSeq(written, NotAlign)
            /\ Len(attrs) = Len(written)
            /\ {attrs[i] : i \in 1..Len(attrs)} = {written[i] : i \in 1..Len(written)}

\* C16: a returned anchor whose written list has an Align attribute after another
\* kind of attribute, and more than one Align attribute
C16_SeveralAlignsMoved ==
    \E a \in Returned :
        LET written == WrittenAttributes(a)
        IN  /\ Len(SelectSeq(written, IsAlign)) >= 2
            /\ Len(SelectSeq(written, NotAlign)) >= 2
            /\ written # a.attributes

\* The text with the Align attribute applied first: padded to the width, then
\* the other attributes, in their written order, set on the padded text
PaddedThenStyled(txt, align, others) ==
    LET padded == IF AttributeApplies(align, txt)
                  THEN Pad(txt, align.direction, align.width) ELSE txt
    IN  Render(ApplyLoop(Stylize(padded), txt, others))

\* C17: for an anchor written with one alignment attribute, at whatever position of
\* its list, transform pushes for a value the value padded to the width with the
\* other attributes of the list set on the padded text.
C17_AlignmentPositionIrrelevant ==
    Called
    => \A k \in Visited :
         LET a == targets[k].anchor
             written == WrittenAttributes(a)
             aligns == SelectSeq(written, IsAlign)
         IN  (Len(aligns) = 1 /\ HasValue(a.name, a.index))
             => pieces[k] = Bytes(PaddedThenStyled(ValueOf(a.name, a.index), aligns[1],
                                                   SelectSeq(written, NotAlign)))

\* C17: a value shorter than the width was pushed for an anchor whose one alignment
\* attribute is written after a colour
C17_AlignWrittenAfterColour ==
    /\ Called
    /\ \E k \in Visited :
         LET a == targets[k].anchor
             written == WrittenAttributes(a)
         IN  /\ Len(SelectSeq(written, IsAlign)) = 1
             /\ Len(written) >= 2
             /\ NotAlign(written[1])
             /\ HasValue(a.name, a.index)
             /\ ValueOf(a.name, a.index) # << >>
             /\ pieces[k] # << >>

\* The value transform chooses for a visited anchor: [found, text, from]
Chosen(a) ==
    IF HasValue(a.name, a.index)
    THEN [found |-> TRUE, text |-> ValueOf(a.name, a.index), from |-> "Primary"]
    ELSE IF Usable(a) # {}
    THEN LET d == a.defaults[SetMin(Usable(a))]
         IN  [found |-> TRUE, text |-> DefaultText(d), from |-> d.kind]
    ELSE [found |-> FALSE, text |-> << >>, from |-> ""]

\* C18: whichever value transform chooses for an anchor (the primary value, the
\* value of an Anchor default or the text of a Literal default), what it pushes is
\* Attribute::apply of that value and the anchor's attribute list, and the value
\* itself when the list is empty.
C18_AttributesOnChosenValue ==
    Called
    => \A k \in Visited :
         LET a == targets[k].anchor
         IN  Chosen(a).found
             => pieces[k] = IF a.attributes = << >> THEN Bytes(Chosen(a).text)
                            ELSE Bytes(AttributeApply(Chosen(a).text, a.attributes))

\* C18: the value of an Anchor default was pushed with the colour set on it, for an
\* anchor that has a Literal default too
C18_AnchorDefaultStyled ==
    /\ Called
    /\ \E k \in Visited :
         LET a == targets[k].anchor
         IN  /\ a.attributes # << >>
             /\ Chosen(a).found
             /\ Chosen(a).from = "Anchor"
             /\ Chosen(a).text # << >>
             /\ \E j \in 1..Len(a.defaults) : a.defaults[j].kind = "Literal"
             /\ pieces[k] # Bytes(Chosen(a).text)

\* The attributes of a list whose pattern, if they have one, matches the text, in
\* list order and without their patterns
RECURSIVE MatchingOriginal(_, _)
MatchingOriginal(attributes, txt) ==
    IF attributes = << >> THEN << >>
    ELSE LET attribute == Head(attributes)
             rest == MatchingOriginal(Tail(attributes), txt)
         IN  IF attribute.must_match = None THEN << attribute >> \o rest
             ELSE IF IsMatch(Unwrap(attribute.must_match), txt)
             THEN << [attribute EXCEPT !.must_match = None] >> \o rest
             ELSE rest

\* C19: what transform pushes for a value and an attribute list is what the list
\* without the conditional attributes whose pattern does not match the value as
\* found in the map gives: such an attribute is left out, whatever the attributes
\* before it made of the value, and the others are applied in list order.
C19_PatternTestedOnOriginal ==
    Called
    => \A k \in Visited :
         LET a == targets[k].anchor
         IN  (Chosen(a).found /\ a.attributes # << >>)
             => pieces[k] = Bytes(AttributeApply(Chosen(a).text,
                                                 MatchingOriginal(a.attributes, Chosen(a).text)))

\* C19: a conditional attribute between two others has a pattern that the value
\* does not match and that the value as styled by the attributes before it does
C19_StyledValueWouldMatch ==
    /\ Called
    /\ \E k \in Visited :
         LET a == targets[k].anchor
             txt == Chosen(a).text
         IN  /\ Chosen(a).found
             /\ \E i \in 2..(Len(a.attributes) - 1) :
                  /\ IsSome(a.attributes[i].must_match)
                  /\ ~IsMatch(Unwrap(a.attributes[i].must_match), txt)
                  /\ IsMatch(Unwrap(a.attributes[i].must_match),
                             AttributeApply(txt, SubSeq(a.attributes, 1, i - 1)))
             /\ pieces[k] # Bytes(txt)

\* The pieces of a text between the ATTRIBUTE_DELIMETER tokens
RECURSIVE SplitNames(_, _)
SplitNames(s, cur) ==
    IF s = << >> THEN {cur}
    ELSE IF Head(s) = ATTRIBUTE_DELIMETER THEN {cur} \cup SplitNames(Tail(s), << >>)
    ELSE SplitNames(Tail(s), Append(cur, Head(s)))

\* The names written in the attribute list of an anchor, for a list without
\* parameters: what stands between `(` and the first `)`, cut at each `|`
WrittenNames(a) ==
    LET open == IF Tok(a.start + 1) = REQUIRED THEN a.start + 2 ELSE a.start + 1
        closes == {i \in (open + 1)..(NTok - 1) : Tok(i) = ATTRIBUTE_CLOSE}
    IN  IF HasTok(open) /\ Tok(open) = ATTRIBUTE_OPEN /\ closes # {}
           /\ \A i \in (open + 1)..(SetMin(closes) - 1) : Tok(i) # PARAM_OPEN
        THEN SplitNames(Slice(tokens, open + 1, SetMin(closes)), << >>) \ {<< >>}
        ELSE {}

\* attr.rs:98-144: the names Attribute::parse knows, with or without the `?` prefix
Recognised(name) ==
    LET attr_name == ToLowercase(IF Head(name) = "?" THEN Tail(name) ELSE name)
    IN  KindOfName(attr_name) # "?" \/ AlignDirection(attr_name) # "?"

\* C20: no template with an unrecognised name in an attribute list parses: every
\* name written in the attribute list of a returned anchor, of whatever length, is
\* a recognised attribute name.
C20_WrittenNamesRecognised ==
    \A a \in Returned : \A name \in WrittenNames(a) : Recognised(name)

\* C21: every ParseError that parse returns has a char_index that is a position of
\* the template's characters, 0 <= char_index < tokens.len(), the column of the
\* one caret of its display.
C21_ErrorIndexInTemplate ==
    (result.status = "err" /\ IsSome(result.char_index))
    => (0 <= Unwrap(result.char_index) /\ Unwrap(result.char_index) < NTok)

C23_CursorNeverDecreases == [][ParserCall => cursor' >= cursor]_vars

\* C23: the default-value state stepped back from a default written right after
\* `||`, which left the cursor on the `|` it was entered with
C23_SteppedBackToPipe ==
    /\ result.status = "running"
    /\ mode = "AnchorParseDefaultAnchor"
    /\ HasTok(cursor) /\ Tok(cursor) = DEFAULT_PIPE
    /\ cursor > 0 /\ Tok(cursor - 1) = DEFAULT_PIPE

\* The position of the first quote q at or after c that no `\` escapes, -1 when
\* the template has none
RECURSIVE NextUnescaped(_, _)
NextUnescaped(c, q) ==
    IF ~HasTok(c) THEN -1
    ELSE IF Tok(c) = ESCAPE THEN NextUnescaped(c + 2, q)
    ELSE IF Tok(c) = q THEN c
    ELSE NextUnescaped(c + 1, q)

\* C24: the call that scans a quoted default opened by `'` or `"` appends to the
\* anchor's defaults the Literal made of the characters strictly between the
\* opening quote and the next unescaped quote of the same kind, of whatever length,
\* and returns the missing-closing-quote error when there is no such quote.
C24_LiteralIsQuotedText ==
    [][(/\ ParserCall
        /\ mode = "AnchorParseDefaultLiteral"
        /\ IsSome(bound_anchor)
        /\ HasTok(SkipWhitespaceFrom(cursor))
        /\ Tok(SkipWhitespaceFrom(cursor)) \in {LITERAL_SINGLE_QUOTE, LITERAL_DOUBLE_QUOTE})
       => LET at == SkipWhitespaceFrom(cursor)
              close == NextUnescaped(at + 1, Tok(at))
          IN  IF close = -1
              THEN /\ result'.status = "err"
                   /\ result'.kind = "default_str_literal_missing_closing_quote"
              ELSE /\ result'.status = "running"
                   /\ IsSome(bound_anchor')
                   /\ Unwrap(bound_anchor').defaults
                        = Append(Unwrap(bound_anchor).defaults,
                                 DefaultLiteral(Slice(tokens, at + 1, close)))]_vars

\* Where the body of an anchor starts: after the open token, the `!` if there is
\* one and the attribute list if there is one
BodyStart(a) ==
    LET c == IF HasTok(a.start + 1) /\ Tok(a.start + 1) = REQUIRED
             THEN a.start + 2 ELSE a.start + 1
        ends == {i \in c..(NTok - 1) : Tok(i) = ATTRIBUTE_END}
    IN  IF HasTok(c) /\ Tok(c) = ATTRIBUTE_OPEN /\ ends # {} THEN SetMin(ends) + 1 ELSE c

\* The name as written: the body up to its first `[`, `|`, quote or close token,
\* without its whitespace
WrittenName(a) ==
    LET stops == {i \in BodyStart(a)..(NTok - 1) : Tok(i) \in BodyStops}
    IN  StripWhitespace(Slice(tokens, BodyStart(a), SetMin(stops)))

\* C25: the name of every returned anchor is the whitespace-stripped text between
\* the start of its body and the first `[`, `|`, quote or close token: nothing
\* written after an index or a default is added to it and nothing written before
\* a quoted literal is left out of it.
C25_NameIsWrittenName == \A a \in Returned : a.name = WrittenName(a)

\* The first anchor-open token of the template and the number of consecutive
\* `\` right before position p
FirstOpen == SetMin({i \in 0..(NTok - 1) : Tok(i) = ANCHOR_OPEN})
RECURSIVE BackslashesBefore(_)
BackslashesBefore(p) ==
    IF p > 0 /\ Tok(p - 1) = ESCAPE THEN 1 + BackslashesBefore(p - 1) ELSE 0

\* The anchors the parser has started: the ones in the list and the bound one
Started == {anchors[k] : k \in 1..Len(anchors)} \cup {bound_anchor[k] : k \in 1..Len(bound_anchor)}

\* C26: the first `{` of a template, which only literal text comes before, is
\* literal text when an odd number of consecutive `\` comes right before it (the
\* last one escapes it) and no anchor starts there; with an even number, zero
\* included, the `\` escape one another, the first anchor starts there and the
\* template never parses as literal text only.
C26_EscapeConsumesOneCharacter ==
    (\E i \in 0..(NTok - 1) : Tok(i) = ANCHOR_OPEN)
    => IF BackslashesBefore(FirstOpen) % 2 = 1
       THEN \A a \in Started : a.start # FirstOpen
       ELSE /\ \A a \in Started : a.start >= FirstOpen
            /\ anchors # << >> => anchors[1].start = FirstOpen
            /\ ~(result.status = "ok" /\ anchors = << >>)

\* C26: a template parsed to an anchor that comes after an escaped `{`
C26_AnchorAfterEscapedOpen ==
    /\ result.status = "ok"
    /\ anchors # << >>
    /\ BackslashesBefore(FirstOpen) = 1
    /\ anchors[1].start > FirstOpen

\* The template ends with a `\` that no `\` before it escapes
EndsWithLoneEscape ==
    /\ NTok > 0
    /\ Tok(NTok - 1) = ESCAPE
    /\ BackslashesBefore(NTok - 1) % 2 = 0

\* C27: a template whose last character is an unescaped `\` met in literal text
\* (the template has no anchor, or the parse ended in the Escaping state) fails
\* with the missing-escapee error, whose char_index is the position of that `\`.
C27_TrailingEscapeReported ==
    (/\ EndsWithLoneEscape
     /\ result.status # "running"
     /\ (mode = "Escaping" \/ \A i \in 0..(NTok - 1) : Tok(i) # ANCHOR_OPEN))
    => result = ParseErr("missing_escapee", NTok - 1)

\* C27: the error was returned for a `\` that ends a template after an anchor
C27_TrailingEscapeAfterAnchor ==
    /\ EndsWithLoneEscape
    /\ result.status = "err"
    /\ mode = "Escaping"
    /\ anchors # << >>

\* The template starts with an anchor whose body has a `[` as its first `[`, `|`,
\* quote or close token, at position i
IndexOpensAt(i) ==
    /\ NTok > 1 /\ Tok(0) = ANCHOR_OPEN /\ Tok(1) \notin {REQUIRED, ATTRIBUTE_OPEN}
    /\ HasTok(i) /\ Tok(i) = INDEX_OPEN
    /\ \A k \in 1..(i - 1) : Tok(k) \notin BodyStops

\* C28: the parser is in the index state only for a `[` that comes right after the
\* last character of a non-empty name; a `[` that follows an empty name, or
\* whitespace after the name, makes parse fail with invalid-indexing-operation.
C28_IndexOpenFollowsName ==
    /\ (result.status = "running" /\ mode = "AnchorParseIndex" /\ IsSome(bound_anchor))
       => LET name == Unwrap(bound_anchor).name
          IN  /\ name # << >>
              /\ Tok(cursor) = INDEX_OPEN
              /\ Tok(cursor - 1) = name[Len(name)]
    /\ LET opens == {i \in 1..(NTok - 1) : Tok(i) = INDEX_OPEN}
           i == SetMin(opens)
       IN  (/\ result.status # "running"
            /\ opens # {}
            /\ IndexOpensAt(i)
            /\ (StripWhitespace(Slice(tokens, 1, i)) = << >> \/ IsAsciiWhitespace(Tok(i - 1))))
           => result = ParseErr("invalid_indexing_operation", i - 1)

\* C28: parse returned the error for a `[` written after a name and whitespace
C28_WhitespaceBeforeIndex ==
    /\ result.status = "err"
    /\ result.kind = "invalid_indexing_operation"
    /\ \E i \in 3..(NTok - 1) :
         /\ IndexOpensAt(i)
         /\ IsAsciiWhitespace(Tok(i - 1))
         /\ StripWhitespace(Slice(tokens, 1, i)) # << >>

\* The first `[`, `|`, quote or close token of the body of an anchor
FirstStop(a) == SetMin({i \in BodyStart(a)..(NTok - 1) : Tok(i) \in BodyStops})

\* What is written between the `[` at position i and the first `]` after it
IndexText(i) ==
    Slice(tokens, i + 1, SetMin({j \in (i + 1)..(NTok - 1) : Tok(j) = INDEX_CLOSE}))

\* C29: a returned anchor written `name[d]` has a non-empty run of ASCII digits as
\* d and the index Some(value of d), nothing else between `[` and `]` parses; a
\* returned anchor written without `[` has the index None, and transform reads the
\* first value of its name for it.
C29_IndexIsWrittenDigits ==
    /\ \A a \in Returned :
         IF Tok(FirstStop(a)) = INDEX_OPEN
         THEN /\ AllDigits(IndexText(FirstStop(a)))
              /\ a.index = Some(DecimalValue(IndexText(FirstStop(a))))
         ELSE (\A i \in a.start..(a.end - 1) : Tok(i) # INDEX_OPEN) => a.index = None
    /\ Called
       => \A k \in Visited :
            LET a == targets[k].anchor
                map == Unwrap(interpolation_map)
            IN  (/\ a.index = None /\ a.attributes = << >>
                 /\ a.name \in DOMAIN map /\ map[a.name] # << >>)
                => pieces[k] = Bytes(map[a.name][1])

\* The pieces of a text between its `||`
RECURSIVE SplitOnPipes(_, _)
SplitOnPipes(s, cur) ==
    IF s = << >> THEN << cur >>
    ELSE IF Len(s) >= 2 /\ s[1] = DEFAULT_PIPE /\ s[2] = DEFAULT_PIPE
    THEN << cur >> \o SplitOnPipes(SubSeq(s, 3, Len(s)), << >>)
    ELSE SplitOnPipes(Tail(s), Append(cur, Head(s)))

\* An identifier, or an identifier and `[digits]`
IsIdentifier(t) == t # << >> /\ \A k \in 1..Len(t) : t[k] \in AnchorCharset
IsIndexed(t) ==
    \E i \in 2..(Len(t) - 2) :
        /\ t[i] = INDEX_OPEN /\ t[Len(t)] = INDEX_CLOSE
        /\ IsIdentifier(SubSeq(t, 1, i - 1))
        /\ AllDigits(SubSeq(t, i + 1, Len(t) - 1))
IsQuoted(t) ==
    /\ Len(t) >= 2
    /\ t[1] \in {LITERAL_SINGLE_QUOTE, LITERAL_DOUBLE_QUOTE}
    /\ t[Len(t)] = t[1]
    /\ \A k \in 2..(Len(t) - 1) : t[k] # t[1]

\* What a default written as t denotes
WrittenDefault(t) ==
    IF IsQuoted(t) THEN DefaultLiteral(SubSeq(t, 2, Len(t) - 1))
    ELSE IF IsIdentifier(t) THEN DefaultAnchor(t, None)
    ELSE LET i == CHOOSE i \in 2..(Len(t) - 2) : t[i] = INDEX_OPEN
         IN  DefaultAnchor(SubSeq(t, 1, i - 1), Some(DecimalValue(SubSeq(t, i + 1, Len(t) - 1))))

\* The body of a returned anchor cut at its `||`, each piece without the
\* whitespace around it
Chain(a) ==
    LET raw == SplitOnPipes(Slice(tokens, BodyStart(a), a.end - 1), << >>)
    IN  [k \in 1..Len(raw) |-> TrimEnd(TrimStart(raw[k]))]

\* C30: a returned anchor written as an identifier, with or without index,
\* followed by defaults that are each a quoted text, an identifier or an
\* identifier with `[n]`, has one entry of defaults per written default, in the
\* written order: Literal(text) for a quoted text, Anchor{name, index} for an
\* identifier, with index Some(n) when `[n]` is written and None when not.
C30_DefaultsAreWrittenChain ==
    \A a \in Returned :
        LET chain == Chain(a)
        IN  (/\ Len(chain) >= 2
             /\ IsIdentifier(chain[1]) \/ IsIndexed(chain[1])
             /\ \A k \in 2..Len(chain) :
                  IsQuoted(chain[k]) \/ IsIdentifier(chain[k]) \/ IsIndexed(chain[k]))
            => a.defaults = [k \in 1..(Len(chain) - 1) |-> WrittenDefault(chain[k + 1])]

OnlyLiteralAnchor ==
    /\ \E i \in 0..(NTok - 1) : Tok(i) = ANCHOR_OPEN
    /\ LET p == FirstOpen
           open == IF HasTok(p + 1) /\ Tok(p + 1) = REQUIRED THEN p + 2 ELSE p + 1
           b == BodyStart([start |-> p])
       IN  /\ \A i \in 0..(p - 1) : Tok(i) # ESCAPE
           /\ b # open => ParseRawAttrs(AttrScan(open + 1, open + 1, << >>).raw_attrs).ok
           /\ HasTok(b)
           /\ Tok(b) \in {LITERAL_SINGLE_QUOTE, LITERAL_DOUBLE_QUOTE}
           /\ NextUnescaped(b + 1, Tok(b)) = NTok - 2
           /\ Tok(NTok - 1) = ANCHOR_CLOSE

\* The text between the quotes of that anchor
OnlyLiteralText ==
    LET b == BodyStart([start |-> FirstOpen])
    IN  Slice(tokens, b + 1, NextUnescaped(b + 1, Tok(b)))

\* C32: a template whose one anchor has a body that is only a quoted literal, with
\* or without an attribute list before it, parses to one anchor with an empty name
\* and the one default Literal(text), and when the anchor is not required every
\* transform call pushes that text for it, with the attributes applied.
C32_LiteralAnchorEmitsText ==
    (OnlyLiteralAnchor /\ result.status # "running")
    => /\ result.status = "ok"
       /\ Len(anchors) = 1
       /\ anchors[1].name = << >>
       /\ anchors[1].defaults = << DefaultLiteral(OnlyLiteralText) >>
       /\ (Called /\ ~anchors[1].required)
          => /\ Visited # {}
             /\ \A k \in Visited :
                  pieces[k] = IF anchors[1].attributes = << >> THEN Bytes(OnlyLiteralText)
                              ELSE Bytes(AttributeApply(OnlyLiteralText, anchors[1].attributes))

\* The targets of a template whose anchors are the k-th and later parsed anchors
\* and whose text before them begins at character `from`: for each anchor the text
\* before it when there is some, then the anchor; at the end the text left
RECURSIVE StretchTargets(_, _)
StretchTargets(k, from) ==
    IF k > Len(anchors)
    THEN IF from < NTok THEN << LiteralTarget(Bytes(Slice(tokens, from, NTok))) >> ELSE << >>
    ELSE (IF from < anchors[k].start
          THEN << LiteralTarget(Bytes(Slice(tokens, from, anchors[k].start))) >>
          ELSE << >>)
         \o << AnchorTarget(anchors[k]) >>
         \o StretchTargets(k + 1, anchors[k].end)

\* C33: for a template that parses, OutputTemplate::parse returns one Anchor target
\* per parsed anchor, in the order of the anchors, and one Literal target for each
\* non-empty maximal stretch of text outside the anchors, at its place; no Literal
\* target is empty and no two Literal targets are next to one another.
C33_TargetsAreStretchesAndAnchors ==
    (result.status = "ok" /\ built # "none")
    => /\ built = "ok"
       /\ targets = StretchTargets(1, 0)
       /\ \A k \in 1..Len(targets) :
            targets[k].kind = "Literal"
            => /\ targets[k].text # << >>
               /\ k < Len(targets) => targets[k + 1].kind = "Anchor"

\* The name and raw arguments of each attribute written in the `(..)` list of an
\* anchor, as the scan of the list hands them to Attribute::parse
WrittenRawAttrs(a) ==
    LET open == IF Tok(a.start + 1) = REQUIRED THEN a.start + 2 ELSE a.start + 1
    IN  IF HasTok(open) /\ Tok(open) = ATTRIBUTE_OPEN
        THEN AttrScan(open + 1, open + 1, << >>).raw_attrs
        ELSE << >>

\* The arguments given for the width of an alignment: all of them, without the
\* pattern of a conditional attribute
WidthArgs(raw) ==
    LET args == ParseArgs(raw.args)
    IN  IF raw.name # << >> /\ Head(raw.name) = "?" /\ args # << >> THEN Tail(args) ELSE args

WritesAlign(raw) ==
    /\ raw.name # << >>
    /\ AlignDirection(ToLowercase(IF Head(raw.name) = "?" THEN Tail(raw.name) ELSE raw.name)) # "?"

\* C34: Attribute::parse accepts lalign, calign and ralign only with exactly one
\* width argument that is a positive integer: every alignment written in the list
\* of a returned anchor has one argument, a number greater than zero.
C34_AlignNeedsOnePositiveWidth ==
    \A a \in Returned :
        LET raws == WrittenRawAttrs(a)
        IN  \A k \in 1..Len(raws) :
              WritesAlign(raws[k])
              => /\ Len(WidthArgs(raws[k])) = 1
                 /\ IsSome(ParseUsize(WidthArgs(raws[k])[1]))
                 /\ Unwrap(ParseUsize(WidthArgs(raws[k])[1])) > 0

\* The widths an alignment is tried with, next to the written ones
MaxWidth == 3

\* s is txt with blanks around it: `before` blanks, then txt, then blanks only
BlanksAround(s, txt, before) ==
    /\ before + Len(txt) <= Len(s)
    /\ SubSeq(s, before + 1, before + Len(txt)) = txt
    /\ \A i \in 1..Len(s) : (i <= before \/ i > before + Len(txt)) => s[i] = " "

\* What the claim says of txt aligned to width: max(n, width) characters, the text
\* unmodified, the blanks on the right for Left, on the left for Right, on both
\* sides for Center
AlignedAsClaimed(s, txt, direction, width) ==
    LET n == Len(txt)
        missing == IF n < width THEN width - n ELSE 0
    IN  /\ Len(s) = IF n > width THEN n ELSE width
        /\ direction = "Left" => BlanksAround(s, txt, 0)
        /\ direction = "Right" => BlanksAround(s, txt, missing)
        /\ direction = "Center"
           => \E before \in 0..missing :
                /\ BlanksAround(s, txt, before)
                /\ missing >= 2 => (before >= 1 /\ before < missing)

\* The unconditional alignment of one direction and width
AlignOnly(direction, width) == << MkAttribute("Align", direction, width, None) >>

\* C35: Attribute::apply of one Align{direction, width} to a value of n characters
\* gives max(n, width) characters: the value unmodified with blanks after it for
\* Left, before it for Right and on both sides for Center, and a value longer than
\* the width whole. So for the value transform chose for an anchor whose list is
\* one alignment, and so for that value under every direction and width.
C35_AlignPadsNeverTruncates ==
    Called
    => \A k \in Visited :
         LET a == targets[k].anchor
             txt == Chosen(a).text
         IN  Chosen(a).found
             => /\ (Len(a.attributes) = 1 /\ IsAlign(a.attributes[1])
                    /\ a.attributes[1].must_match = None)
                   => AlignedAsClaimed(pieces[k], Bytes(txt), a.attributes[1].direction,
                                       a.attributes[1].width)
                /\ \A direction \in {"Left", "Right", "Center"} : \A width \in 0..MaxWidth :
                     AlignedAsClaimed(AttributeApply(txt, AlignOnly(direction, width)),
                                      txt, direction, width)

\* The k-th target is a visited anchor whose list is one alignment and for which
\* transform chose a non-empty value
AlignedValue(k) ==
    /\ k \in Visited
    /\ Len(targets[k].anchor.attributes) = 1
    /\ IsAlign(targets[k].anchor.attributes[1])
    /\ Chosen(targets[k].anchor).found
    /\ Chosen(targets[k].anchor).text # << >>

\* C35: one call pushed a value with blanks on both sides for a centred anchor and
\* a value longer than the width of its alignment, whole, for another anchor
C35_CentredAndLonger ==
    /\ Called
    /\ \E k, j \in Visited :
         /\ AlignedValue(k)
         /\ targets[k].anchor.attributes[1].direction = "Center"
         /\ Len(pieces[k]) >= Len(Chosen(targets[k].anchor).text) + 2
         /\ pieces[k][1] = " " /\ pieces[k][Len(pieces[k])] = " "
         /\ AlignedValue(j)
         /\ targets[j].anchor.attributes[1].width < Len(Chosen(targets[j].anchor).text)
         /\ pieces[j] = Bytes(Chosen(targets[j].anchor).text)

(***************************************************************************)
(* run (line.rs:14-87): the captures map of each input line                *)
(***************************************************************************)
\* The most matches the patterns have on one line, all patterns together
MaxMatches == 2

\* A pattern is what Regex::new makes of it: an error, or a regex with the names of
\* its named groups in the order of capture_names()
BadPattern == [ok |-> FALSE, capnames |-> << >>]
GoodPattern(capnames) == [ok |-> TRUE, capnames |-> capnames]

PatternLists ==
    {<< GoodPattern(<< << "a" >> >>) >>,
     << GoodPattern(<< << "a" >>, << "b" >> >>) >>,
     << GoodPattern(<< << "a" >>, << "b" >> >>), GoodPattern(<< << "a" >> >>) >>,
     << GoodPattern(<< >>) >>,
     << GoodPattern(<< << "a" >> >>), BadPattern >>}

\* ProcessArgs: whether the template has the `${name}` form, the patterns, and
\* whether the scanner of the files (or of stdin) can be made
ProcessArgs == [output_template_ok : BOOLEAN, pattern : PatternLists, files_ok : BOOLEAN]

\* One element of captures_iter: the groups that took part in the match, each with
\* the text it matched
MatchTexts == {<< "v" >>, << "w" >>}
CaptureMatches(capnames) ==
    UNION {[groups -> MatchTexts] : groups \in SUBSET {capnames[k] : k \in 1..Len(capnames)}}

RECURSIVE MatchLists(_, _)
MatchLists(capnames, n) ==
    IF n = 0 THEN {<< >>}
    ELSE LET shorter == MatchLists(capnames, n - 1)
         IN  shorter \cup {Append(ms, m) : ms \in shorter, m \in CaptureMatches(capnames)}

\* A line is what each pattern's captures_iter gives on it, one list per pattern,
\* with at most n matches in all
RECURSIVE LinesFor(_, _)
LinesFor(pattern, n) ==
    IF pattern = << >> THEN {<< >>}
    ELSE UNION {{<< ms >> \o rest : rest \in LinesFor(Tail(pattern), n - Len(ms))}
                : ms \in MatchLists(Head(pattern).capnames, n)}

\* line.rs:39-41: every capture name of a pattern, mapped to the empty Vec
RECURSIVE EntryOrDefault(_, _)
EntryOrDefault(map, capnames) ==
    IF capnames = << >> THEN map
    ELSE EntryOrDefault(IF Head(capnames) \in DOMAIN map THEN map
                        ELSE [n \in DOMAIN map \cup {Head(capnames)} |->
                                IF n \in DOMAIN map THEN map[n] ELSE << >>],
                        Tail(capnames))

\* line.rs:36-43: the patterns, in the order given
RECURSIVE CachedCaptureNames(_, _)
CachedCaptureNames(map, pattern) ==
    IF pattern = << >> THEN map
    ELSE CachedCaptureNames(EntryOrDefault(map, Head(pattern).capnames), Tail(pattern))

\* line.rs:21-57: the checks, the map built before the loop and the scanner
RunSetup ==
    /\ run_pc = "start"
    /\ process_args \in ProcessArgs
    /\ LET built_map == CachedCaptureNames(<< >>, process_args.pattern)
       IN  IF ~process_args.output_template_ok
           THEN run_pc' = "err_output_template" /\ captures_map' = captures_map
           ELSE IF \E k \in 1..Len(process_args.pattern) : ~process_args.pattern[k].ok
           THEN run_pc' = "err_invalid_pattern" /\ captures_map' = captures_map
           ELSE IF DOMAIN built_map = {}
           THEN run_pc' = "err_no_named_capture" /\ captures_map' = Some(built_map)
           ELSE IF ~process_args.files_ok
           THEN run_pc' = "err_scanner" /\ captures_map' = Some(built_map)
           ELSE run_pc' = "scan" /\ captures_map' = Some(built_map)
    /\ UNCHANGED << process_args, line, line_captures_map, core_vars, writer_vars, scanner_vars >>

\* A variant in which an iteration goes on with the map of the iteration before it
CarriedMap(outer, previous) == IF IsSome(previous) THEN previous ELSE outer

\* line.rs:64: `let mut captures_map = captures_map.clone()`
FreshMap(outer, previous) == outer

\* line.rs:59-64: the scanner gives a line, and the iteration starts with its own map
LineBegin ==
    /\ run_pc = "scan"
    /\ \E l \in LinesFor(process_args.pattern, MaxMatches) : line' = l
    /\ line_captures_map' = FreshMap(captures_map, line_captures_map)
    /\ run_pc' = "populate"
    /\ UNCHANGED << process_args, captures_map, core_vars, writer_vars, scanner_vars >>

\* line.rs:73-76: entry(name).and_modify(push).or_insert_with(vec![val])
PushValue(map, name, val) ==
    [n \in DOMAIN map \cup {name} |->
        IF n = name THEN (IF name \in DOMAIN map THEN Append(map[name], val) ELSE << val >>)
        ELSE map[n]]

\* line.rs:69-77: the capture names of the pattern, for one match
RECURSIVE PushNames(_, _, _)
PushNames(map, capture_match, capture_names) ==
    IF capture_names = << >> THEN map
    ELSE PushNames(IF Head(capture_names) \in DOMAIN capture_match
                   THEN PushValue(map, Head(capture_names), capture_match[Head(capture_names)])
                   ELSE map,
                   capture_match, Tail(capture_names))

\* line.rs:68-78: the matches of one pattern, in the order of captures_iter
RECURSIVE PushMatches(_, _, _)
PushMatches(map, matches, capture_names) ==
    IF matches = << >> THEN map
    ELSE PushMatches(PushNames(map, Head(matches), capture_names), Tail(matches), capture_names)

\* line.rs:67-79: the patterns, in the order given
RECURSIVE PushPatterns(_, _)
PushPatterns(map, k) ==
    IF k > Len(process_args.pattern) THEN map
    ELSE PushPatterns(PushMatches(map, line[k], process_args.pattern[k].capnames), k + 1)

\* line.rs:66-83: the map is filled from the line and the line is printed
LinePopulate ==
    /\ run_pc = "populate"
    /\ line_captures_map' = Some(PushPatterns(Unwrap(line_captures_map), 1))
    /\ run_pc' = "scan"
    /\ UNCHANGED << process_args, captures_map, line, core_vars, writer_vars, scanner_vars >>

\* line.rs:59, 86: the scanner has no more line and run returns Ok
RunReturn ==
    /\ run_pc = "scan"
    /\ run_pc' = "ok"
    /\ UNCHANGED << process_args, captures_map, line, line_captures_map, core_vars, writer_vars,
                    scanner_vars >>

RunInit ==
    /\ process_args \in ProcessArgs
    /\ captures_map = None
    /\ line = << >>
    /\ line_captures_map = None
    /\ run_pc = "start"
    /\ WriterNotStarted /\ ScannerNotStarted
    /\ tokens = << >>
    /\ cursor = 0
    /\ mode = "Base"
    /\ bound_anchor = None
    /\ recursion_depth = 0
    /\ anchors = << >>
    /\ result = Running
    /\ targets = << >>
    /\ built = "none"
    /\ interpolation_map = None
    /\ pieces = << >>
    /\ out = << >>

RunNext ==
    \/ RunSetup
    \/ LineBegin
    \/ LinePopulate
    \/ RunReturn

RunSpec == RunInit /\ [][RunNext]_vars

\* The names of the named groups of all the patterns
AllCaptureNames ==
    UNION {{process_args.pattern[k].capnames[i] : i \in 1..Len(process_args.pattern[k].capnames)}
           : k \in 1..Len(process_args.pattern)}

\* What the matches of one pattern give for a name, match after match
RECURSIVE NameInMatches(_, _)
NameInMatches(matches, name) ==
    IF matches = << >> THEN << >>
    ELSE (IF name \in DOMAIN Head(matches) THEN << Head(matches)[name] >> ELSE << >>)
         \o NameInMatches(Tail(matches), name)

\* What the current line gives for a name: the patterns from the k-th on
RECURSIVE NameInLine(_, _)
NameInLine(k, name) ==
    IF k > Len(line) THEN << >>
    ELSE NameInMatches(line[k], name) \o NameInLine(k + 1, name)

BLOCK_SIZE == 512

\* The writeln calls followed
MaxWrites == 3

NEWLINE == "LF"  \* b'\n'

Fill(c, n) == [k \in 1..n |-> c]

\* The lines given to writeln, each a &str by the bytes it is stored as: empty,
\* one two-byte character, half a block, one byte less than a block with its
\* newline, a block with its newline, more than a block
LineTexts ==
    {<< >>,
     Utf8(E_ACUTE),
     Fill("h", BLOCK_SIZE \div 2),
     Fill("s", BLOCK_SIZE - 2),
     Fill("b", BLOCK_SIZE - 1),
     Fill("m", BLOCK_SIZE + 1)}

\* write_all on stdout: every byte is written, or an error is returned after none
\* or a part of them was written
WriteOutcomes == {"all", "none", "part"}

\* A variant that leaves the buffer as it is after it was written
NotCleared(buf) == buf

\* tty.rs:98: self.buffer.clear()
Cleared(buf) == << >>

\* tty.rs:93-101 flush_buffer: [ok, buffer, stdout]
FlushBuffer(buf, stdout, outcome) ==
    IF buf = << >> THEN [ok |-> TRUE, buffer |-> buf, stdout |-> stdout]
    ELSE IF outcome = "all"
    THEN [ok |-> TRUE, buffer |-> Cleared(buf), stdout |-> stdout \o buf]
    ELSE [ok |-> FALSE, buffer |-> buf,
          stdout |-> stdout \o (IF outcome = "part" THEN SubSeq(buf, 1, Len(buf) \div 2)
                                ELSE << >>)]

\* A variant that flushes only a buffer longer than the block
ExceedsBlock(len) == len > BLOCK_SIZE

\* tty.rs:121: `self.buffer.len() >= BLOCK_SIZE`
ReachesBlock(len) == len >= BLOCK_SIZE

\* tty.rs:112-126 writeln: [ok, buffer, stdout]
WritelnBlock(buf, stdout, txt, first, second) ==
    LET txt_bytes == txt  \* txt.as_bytes(): the bytes of the &str, as they are
        before == IF Len(buf) + Len(txt_bytes) + 1 > BLOCK_SIZE
                  THEN FlushBuffer(buf, stdout, first)
                  ELSE [ok |-> TRUE, buffer |-> buf, stdout |-> stdout]
        extended == Append(before.buffer \o txt_bytes, NEWLINE)
    IN  IF ~before.ok THEN before
        ELSE IF ReachesBlock(Len(extended)) THEN FlushBuffer(extended, before.stdout, second)
        ELSE [ok |-> TRUE, buffer |-> extended, stdout |-> before.stdout]

Writeln ==
    /\ ~dropped
    /\ Len(passed) < MaxWrites
    /\ \E txt \in LineTexts : \E first, second \in WriteOutcomes :
         LET r == WritelnBlock(buffer, stdout_lock, txt, first, second)
         IN  /\ buffer' = r.buffer
             /\ stdout_lock' = r.stdout
             /\ passed' = Append(passed, txt)
             /\ writeln_result' = IF r.ok THEN "ok" ELSE "err"
             /\ stdout_failed' = (stdout_failed \/ ~r.ok)
    /\ UNCHANGED << dropped, core_vars, run_vars, scanner_vars >>

\* tty.rs:128-136 drop: the buffer is flushed, an error is logged and dropped
Drop ==
    /\ ~dropped
    /\ \E outcome \in WriteOutcomes :
         LET r == FlushBuffer(buffer, stdout_lock, outcome)
         IN  /\ buffer' = r.buffer
             /\ stdout_lock' = r.stdout
             /\ stdout_failed' = (stdout_failed \/ ~r.ok)
    /\ dropped' = TRUE
    /\ UNCHANGED << passed, writeln_result, core_vars, run_vars, scanner_vars >>

\* BlockBufferedOutputWriter::new (tty.rs:84-89)
WriterInit ==
    /\ WriterNotStarted
    /\ RunNotStarted /\ ScannerNotStarted
    /\ tokens = << >>
    /\ cursor = 0
    /\ mode = "Base"
    /\ bound_anchor = None
    /\ recursion_depth = 0
    /\ anchors = << >>
    /\ result = Running
    /\ targets = << >>
    /\ built = "none"
    /\ interpolation_map = None
    /\ pieces = << >>
    /\ out = << >>

WriterNext ==
    \/ Writeln
    \/ Drop

WriterSpec == WriterInit /\ [][WriterNext]_vars

\* The lines given so far, each followed by a newline
RECURSIVE LinesWithNewlines(_)
LinesWithNewlines(lines) ==
    IF lines = << >> THEN << >>
    ELSE Head(lines) \o << NEWLINE >> \o LinesWithNewlines(Tail(lines))

C39_BufferBelowBlockSize ==
    writeln_result = "ok" => Len(buffer) < BLOCK_SIZE

\* C39: a writeln of a line longer than the block returned Ok after one of a line
\* that stayed in the buffer
C39_LongLineWritten ==
    /\ writeln_result = "ok"
    /\ ~dropped
    /\ Len(passed) = 2
    /\ passed[1] # << >>
    /\ Len(passed[1]) < BLOCK_SIZE - 1
    /\ Len(passed[2]) > BLOCK_SIZE
    /\ buffer = << >>

(***************************************************************************)
(* MultiFileScanner (scanner/file.rs)                                      *)
(***************************************************************************)
\* The paths given to MultiFileScanner::new
MaxFiles == 2

\* What Lines<BufReader<File>>::next gives: a line, or an error of the read
ReadOk(text) == [ok |-> TRUE, text |-> text]
ReadErr == [ok |-> FALSE, text |-> << >>]

\* A file is what reading it line by line gives up to its end, or cannot be opened
Opened(reads) == [opens |-> TRUE, reads |-> reads]
Unopenable == [opens |-> FALSE, reads |-> << >>]

Files ==
    {Opened(<< >>),
     Opened(<< ReadOk(<< "p" >>) >>),
     Opened(<< ReadOk(<< "p" >>), ReadOk(<< "q" >>) >>),
     Opened(<< ReadOk(<< "q" >>), ReadOk(<< >>), ReadOk(<< "q" >>) >>),
     Opened(<< ReadErr >>),
     Opened(<< ReadOk(<< "p" >>), ReadErr, ReadOk(<< "q" >>) >>),
     Unopenable}

RECURSIVE PathLists(_)
PathLists(n) ==
    IF n = 0 THEN {<< >>}
    ELSE LET shorter == PathLists(n - 1)
         IN  shorter \cup {Append(paths, f) : paths \in shorter, f \in Files}

CallResult(call, item) == [call |-> call, item |-> item]

\* file.rs:14-34 MultiFileScanner::new
MultiFileScannerNew ==
    /\ next_result.call = "none"
    /\ IF file_paths = << >> \/ \E k \in 1..Len(file_paths) : ~file_paths[k].opens
       THEN /\ next_result' = CallResult("new_err", None)
            /\ UNCHANGED << buf_readers, current_buf_reader_idx >>
       ELSE /\ buf_readers' = Some([k \in 1..Len(file_paths) |-> file_paths[k].reads])
            /\ current_buf_reader_idx' = 0
            /\ next_result' = CallResult("new_ok", None)
    /\ UNCHANGED << file_paths, yielded, core_vars, run_vars, writer_vars >>

\* A variant that reads the last reader whatever the index is
LastReader(readers, idx) == Len(readers)

\* file.rs:46: `self.buf_readers.get_mut(self.current_buf_reader_idx)`
ReaderAt(readers, idx) == idx + 1

\* file.rs:45-54 next: [item, idx, readers]
RECURSIVE ScannerNext(_, _)
ScannerNext(readers, idx) ==
    IF ~(idx < Len(readers)) THEN [item |-> None, idx |-> idx, readers |-> readers]
    ELSE LET at == ReaderAt(readers, idx)
             buf_reader == readers[at]
         IN  IF buf_reader # << >> /\ Head(buf_reader).ok
             THEN [item |-> Some(Head(buf_reader).text), idx |-> idx,
                   readers |-> [readers EXCEPT ![at] = Tail(buf_reader)]]
             ELSE ScannerNext([readers EXCEPT ![at] = IF buf_reader = << >> THEN << >>
                                                      ELSE Tail(buf_reader)],
                              idx + 1)

IteratorNext ==
    /\ IsSome(buf_readers)
    /\ LET r == ScannerNext(Unwrap(buf_readers), current_buf_reader_idx)
       IN  /\ buf_readers' = Some(r.readers)
           /\ current_buf_reader_idx' = r.idx
           /\ next_result' = CallResult("next", r.item)
           /\ yielded' = IF IsSome(r.item) THEN Append(yielded, Unwrap(r.item)) ELSE yielded
    /\ UNCHANGED << file_paths, core_vars, run_vars, writer_vars >>

ScannerInit ==
    /\ file_paths \in PathLists(MaxFiles)
    /\ buf_readers = None
    /\ current_buf_reader_idx = 0
    /\ yielded = << >>
    /\ next_result = CallResult("none", None)
    /\ RunNotStarted /\ WriterNotStarted
    /\ tokens = << >>
    /\ cursor = 0
    /\ mode = "Base"
    /\ bound_anchor = None
    /\ recursion_depth = 0
    /\ anchors = << >>
    /\ result = Running
    /\ targets = << >>
    /\ built = "none"
    /\ interpolation_map = None
    /\ pieces = << >>
    /\ out = << >>

ScannerActions ==
    \/ MultiFileScannerNew
    \/ IteratorNext

ScannerSpec == ScannerInit /\ [][ScannerActions]_vars

\* The lines of the files from the k-th on, file after file: every line a read of
\* the file gives
RECURSIVE OkTexts(_)
OkTexts(reads) ==
    IF reads = << >> THEN << >>
    ELSE (IF Head(reads).ok THEN << Head(reads).text >> ELSE << >>) \o OkTexts(Tail(reads))

RECURSIVE LinesOfFiles(_)
LinesOfFiles(k) ==
    IF k > Len(file_paths) THEN << >>
    ELSE OkTexts(file_paths[k].reads) \o LinesOfFiles(k + 1)

\* The lines of a file before its first failed read
RECURSIVE TextsBeforeError(_)
TextsBeforeError(reads) ==
    IF reads = << >> \/ ~Head(reads).ok THEN << >>
    ELSE << Head(reads).text >> \o TextsBeforeError(Tail(reads))

RECURSIVE LinesBeforeErrors(_)
LinesBeforeErrors(k) ==
    IF k > Len(file_paths) THEN << >>
    ELSE TextsBeforeError(file_paths[k].reads) \o LinesBeforeErrors(k + 1)

IsPrefix(s, t) == Len(s) <= Len(t) /\ s = SubSeq(t, 1, Len(s))

ReturnedNone == next_result.call = "next" /\ next_result.item = None

\* The index never decreases, and after a None every call returns None
IndexAndEndStay ==
    /\ current_buf_reader_idx' >= current_buf_reader_idx
    /\ (ReturnedNone /\ next_result'.call = "next") => next_result'.item = None

\* C38 as stated: the scanner yields the lines of the first file, then of the
\* second, and so on in the order of the paths, all of them by the time it
\* returns None; its index never decreases and after a None every later call
\* returns None.
C38_YieldsEveryLineInPathOrder ==
    /\ [](/\ IsPrefix(yielded, LinesOfFiles(1))
          /\ ReturnedNone => yielded = LinesOfFiles(1))
    /\ [][IndexAndEndStay]_vars

\* C38: the scanner yields, file after file in the order of the paths, the lines
\* of each file up to its end or its first failed read, all of them by the time it
\* returns None; a call that returns a line has yielded one more of them; its index
\* never decreases and after a None every later call returns None.
C38_YieldsLinesUpToReadError ==
    /\ [](/\ IsPrefix(yielded, LinesBeforeErrors(1))
          /\ ReturnedNone => (/\ yielded = LinesBeforeErrors(1)
                              /\ current_buf_reader_idx = Len(file_paths)))
    /\ [][/\ IndexAndEndStay
          /\ (next_result'.call = "next" /\ IsSome(next_result'.item))
             => yielded' = Append(yielded, Unwrap(next_result'.item))]_vars

\* C38: the scanner returned None after the lines of two files, of which the
\* first has three lines and the second a read that fails before its last line
C38_EndAfterTwoFiles ==
    /\ ReturnedNone
    /\ Len(file_paths) = 2
    /\ Len(yielded) = 4
    /\ yielded[3] = << "q" >> /\ yielded[4] = << "p" >>
    /\ Len(LinesOfFiles(1)) = 5

====
